---- MODULE Spec2Model ----
(***************************************************************************)
(* Model of the Circle.so API client (src/lib/api/circle.ts) and of the    *)
(* cache manager (lib/cache-manager.ts, kept as src/unnamed/part_005).     *)
(*                                                                         *)
(* Three state machines share the module:                                  *)
(*   SpecFetch    one call of fetchFromEndpoint against an upstream that   *)
(*                answers each attempt as it likes;                        *)
(*   SpecMembers  one call of a public operation (fetchCircleMembers,      *)
(*                getInvitationLinkStats, testCircleConnection);           *)
(*   SpecCache    the CacheManager singleton under a clock.                *)
(***************************************************************************)
EXTENDS Integers, Sequences, FiniteSets, TLC

\* ------------------------------------------------------------------ bounds

\* The longest member array processBrokerStats is applied to.
MaxMembers == 6

\* The most pages a served collection has.
MaxServedPages == 3

\* Largest value of options.retries a caller passes (the default is maxRetries).
MaxRetriesInput == 4

\* Largest page_count the upstream announces in a first page.
MaxPageCount == 3

\* The clock of the cache model stops here (in units of TimeUnitMinutes).
MaxTime == 8
MaxPagerPages == 6
BigPageCount == 22
MaxWaits == 4

\* ---------------------------------------------------- program constants

\* API_CONFIG.maxRetries
maxRetries == 3

\* API_CONFIG.timeout, in milliseconds
timeout == 30000

\* API_CONFIG.retryDelays, in milliseconds
retryDelays == <<1000, 2000, 4000>>

\* the fallback delay of `API_CONFIG.retryDelays[attempt - 1] || 4000`
fallbackDelay == 4000

\* API_CONFIG.parameterSets: three parameter variants, tried in this order
parameterSets == <<"basic", "include", "fields">>

\* maxConsecutiveEmptyPages of fetchAllPages
maxConsecutiveEmptyPages == 3

\* A page cap twice as high.
maxPagesCap_doubled == 2 * 20

\* the page cap of fetchAllPages: Math.min(page_count, 20)
maxPagesCap == 20

\* ------------------------------------------------------------ JS values

\* A JavaScript object is a function from the names of its present fields.
Has(obj, f) == f \in DOMAIN obj

\* JSON.parse results: null, or an object; NoJson is a text JSON.parse rejects.
JNull == [t |-> "null"]
JObj(o) == [t |-> "object", v |-> o]
NoJson == [t |-> "invalid"]

\* Fields hold strings ("" is the empty string), objects (a record; JNull is
\* null) and arrays (a sequence). An absent field reads as undefined, which the
\* code only ever tests for truthiness: it reads as "" or null here.
str(obj, f) == IF Has(obj, f) THEN obj[f] ELSE ""
object(obj, f) == IF Has(obj, f) THEN obj[f] ELSE JNull
array(obj, f) == IF Has(obj, f) THEN obj[f] ELSE << >>
num(obj, f) == IF Has(obj, f) THEN obj[f] ELSE 0

\* a || b for strings, and for objects
orStr(a, b) == IF a # "" THEN a ELSE b
orObj(a, b) == IF a # JNull THEN a ELSE b
orNum(a, b) == IF a # 0 THEN a ELSE b

\* Member records in the shapes processBrokerStats reads.
mNested == [id |-> "m1", invited_by |-> [id |-> "A", name |-> "Alice"]]
mFlat == [id |-> "m2", inviter_id |-> "B", inviter_name |-> "Bob"]
mNone == [id |-> "m3"]
mNestedToo == [id |-> "m4", invited_by |-> [id |-> "A", name |-> "Alice"]]
mIdOnly == [id |-> "m5", inviter_id |-> "C"]
mBoth == [id |-> "m6", invited_by |-> [id |-> "A"], inviter_id |-> "B", inviter_name |-> "Bob"]

\* An invitation-link record with a joined-members relation.
lnk == [id |-> "L1", url |-> "u1", members |-> <<[id |-> "m1", name |-> "Ann"]>>]

\* The record arrays the upstream serves in one page.
RecordLists == {<< >>, <<mNested>>, <<mNone, mFlat>>, <<lnk>>}

\* The JSON documents the upstream serves.
FirstPages ==
  {JObj([records |-> rs, has_next_page |-> TRUE, page_count |-> n]) :
     rs \in RecordLists \ {<< >>}, n \in {MaxPageCount}}
LaterPages == {JObj([records |-> rs]) : rs \in RecordLists}
Docs ==
  {JNull, JObj([count |-> 0]), JObj([members |-> <<mNested>>, has_next_page |-> FALSE])}
    \cup FirstPages \cup LaterPages

\* ------------------------------------------------------ response texts

\* A response text: the words in it, and what JSON.parse makes of it.
Words == {"Checking Your Browser", "Cloudflare", "Ray ID", "Security Check",
          "please wait while we check", "oops"}

\* String.prototype.toLowerCase on the words above.
toLowerCase(w) ==
  CASE w = "Checking Your Browser" -> "checking your browser"
    [] w = "Cloudflare" -> "cloudflare"
    [] w = "Ray ID" -> "ray id"
    [] w = "Security Check" -> "security check"
    [] OTHER -> w

indicators == <<"checking your browser", "cloudflare", "ray id",
                "please wait while we check", "security check">>

isCloudflareBlocked(text) ==
  \E i \in 1..Len(indicators) :
    \E k \in 1..Len(text.words) : toLowerCase(text.words[k]) = indicators[i]

\* A content-type header: its media type and parameters; '' when the header is absent.
ContentTypes == {<<"application/json">>, <<"application/json", "charset=utf-8">>,
                 <<"text/html">>, << >>}

\* contentType.includes('application/json')
includesJson(contentType) ==
  \E k \in 1..Len(contentType) : contentType[k] = "application/json"

Statuses == {200, 401, 403, 404, 429, 503}

\* response.ok
ok(status) == status >= 200 /\ status <= 299

determineErrorType_cloudflareFirst(status, contentType, responseText) ==
  IF isCloudflareBlocked(responseText) THEN "CLOUDFLARE_BLOCKED"
  ELSE IF status = 401 \/ status = 403 THEN "INVALID_CREDENTIALS"
  ELSE IF status = 429 THEN "RATE_LIMITED"
  ELSE IF status = 0 \/ status >= 500 THEN "NETWORK_ERROR"
  ELSE IF ~includesJson(contentType) THEN "INVALID_RESPONSE"
  ELSE "UNKNOWN_ERROR"

determineErrorType(status, contentType, responseText) ==
  IF status = 401 \/ status = 403 THEN "INVALID_CREDENTIALS"
  ELSE IF status = 429 THEN "RATE_LIMITED"
  ELSE IF status = 0 \/ status >= 500 THEN "NETWORK_ERROR"
  ELSE IF isCloudflareBlocked(responseText) THEN "CLOUDFLARE_BLOCKED"
  ELSE IF ~includesJson(contentType) THEN "INVALID_RESPONSE"
  ELSE "UNKNOWN_ERROR"

\* ------------------------------------------------- upstream's answers

\* A JSON text without challenge words.
textOf(d) == [words |-> << >>, json |-> d]

\* Texts that are not the JSON the client hopes for: a JSON text that mentions
\* Cloudflare, a challenge page, and a text that is neither.
OddTexts ==
  {[words |-> <<"Cloudflare">>, json |-> JObj([count |-> 0])],
   [words |-> <<"Checking Your Browser", "Ray ID">>, json |-> NoJson],
   [words |-> <<"oops">>, json |-> NoJson]}

Texts == {textOf(d) : d \in Docs} \cup OddTexts

\* The texts a single call of fetchFromEndpoint is answered with.
FetchTexts == {textOf(JNull), textOf(JObj([records |-> <<mNested>>]))} \cup OddTexts

\* What one fetch() of an attempt ends in: an HTTP response, or a rejection
\* (a network-level exception, the attempt's timeout, the caller's abort).
Responses(texts) ==
  [kind : {"response"}, status : Statuses, contentType : ContentTypes, text : texts]
Rejections == {[kind |-> "exception"], [kind |-> "timeout"]}
CallerAbort == [kind |-> "abort"]


\* ------------------------------------------------------- aggregation

\* first + ' ' + last, for the names the records of the model carry.
withSpace(first, last) ==
  IF first = "Al" /\ last = "Ice" THEN "Al Ice" ELSE "First Last"

\* `${a.first_name || ''} ${a.last_name || ''}`.trim()
fullName(o) ==
  LET first == str(o, "first_name")
      last == str(o, "last_name") IN
  IF first = "" THEN last
  ELSE IF last = "" THEN first
  ELSE withSpace(first, last)

\* String(member.id || member.user_id)
memberId(m) ==
  LET id == orStr(str(m, "id"), str(m, "user_id")) IN
  IF id = "" THEN "undefined" ELSE id

\* One joined member of an invitation link, in the Member shape.
joinedMember(member, link, linkId) ==
  [id |-> memberId(member),
   name |-> orStr(orStr(orStr(str(member, "name"), str(member, "display_name")),
                        fullName(member)), "Unknown"),
   email |-> str(member, "email"),
   created_at |-> orStr(orStr(str(member, "created_at"), str(member, "joined_at")),
                        str(member, "used_at")),
   invited_by |->
     IF object(member, "invited_by") # JNull
       THEN [id |-> str(member.invited_by, "id"),
             name |-> orStr(str(member.invited_by, "name"),
                            str(member.invited_by, "display_name")),
             email |-> str(member.invited_by, "email")]
       ELSE JNull,
   invitation_link |->
     [id |-> linkId,
      url |-> orStr(str(link, "url"), str(link, "invitation_url")),
      name |-> orStr(str(link, "name"), str(link, "title"))]]

possibleMemberFields ==
  <<"members", "joined_members", "users", "invited_users", "used_by", "used_by_users">>

\* The first of the possible member fields that holds a non-empty array.
joinedMembersOf(link) ==
  LET found == {i \in 1..Len(possibleMemberFields) :
                  array(link, possibleMemberFields[i]) # << >>} IN
  IF found = {} THEN << >>
  ELSE LET first == CHOOSE i \in found : \A j \in found : i <= j
           field == array(link, possibleMemberFields[first]) IN
       [k \in 1..Len(field) |-> joinedMember(field[k], link, str(link, "id"))]

processInvitationLink(link) ==
  LET joinedMembers == joinedMembersOf(link) IN
  [id |-> str(link, "id"),
   url |-> orStr(str(link, "url"), str(link, "invitation_url")),
   created_at |-> orStr(str(link, "created_at"), str(link, "createdAt")),
   created_by |->
     IF object(link, "created_by") # JNull
       THEN [id |-> str(link.created_by, "id"),
             name |-> orStr(str(link.created_by, "name"),
                            str(link.created_by, "display_name")),
             email |-> str(link.created_by, "email")]
       ELSE JNull,
   expires_at |-> orStr(str(link, "expires_at"), str(link, "expiresAt")),
   is_active |->
     IF Has(link, "is_active") THEN link.is_active
     ELSE IF Has(link, "active") THEN link.active
     ELSE TRUE,
   usage_count |-> orNum(orNum(num(link, "usage_count"), num(link, "used_count")),
                         Len(joinedMembers)),
   max_uses |-> orNum(num(link, "max_uses"), num(link, "maxUses")),
   joined_members |-> joinedMembers]

processInvitationLinks(invitationLinks) ==
  [i \in 1..Len(invitationLinks) |-> processInvitationLink(invitationLinks[i])]

brokerOf_unknownBroker(member) ==
  LET inviter == orObj(orObj(orObj(object(member, "invited_by"), object(member, "inviter")),
                             object(member, "referrer")), object(member, "inviter_user"))
      inviterId == orStr(orStr(str(member, "inviter_id"), str(member, "invited_by_id")),
                         str(member, "referrer_id"))
      inviterName == orStr(orStr(str(member, "inviter_name"), str(member, "invited_by_name")),
                           str(member, "referrer_name")) IN
  IF inviter # JNull /\ str(inviter, "id") # ""
    THEN [id |-> inviter.id,
          name |-> orStr(orStr(orStr(orStr(str(inviter, "name"), str(inviter, "display_name")),
                                     fullName(inviter)), str(inviter, "email")), "Unknown")]
  ELSE IF inviterId # "" /\ inviterName # ""
    THEN [id |-> inviterId, name |-> inviterName]
  ELSE [id |-> "unknown", name |-> "Unknown"]

\* The broker a member record counts for: [id, name], or JNull for none.
brokerOf(member) ==
  LET inviter == orObj(orObj(orObj(object(member, "invited_by"), object(member, "inviter")),
                             object(member, "referrer")), object(member, "inviter_user"))
      inviterId == orStr(orStr(str(member, "inviter_id"), str(member, "invited_by_id")),
                         str(member, "referrer_id"))
      inviterName == orStr(orStr(str(member, "inviter_name"), str(member, "invited_by_name")),
                           str(member, "referrer_name")) IN
  IF inviter # JNull /\ str(inviter, "id") # ""
    THEN [id |-> inviter.id,
          name |-> orStr(orStr(orStr(orStr(str(inviter, "name"), str(inviter, "display_name")),
                                     fullName(inviter)), str(inviter, "email")), "Unknown")]
  ELSE IF inviterId # "" /\ inviterName # ""
    THEN [id |-> inviterId, name |-> inviterName]
  ELSE JNull

countMember_neverMerges(map, b) ==
  Append(map, [brokerId |-> b.id, brokerName |-> b.name, referredCount |-> 1])

\* brokerMap after one more member of broker b: has(brokerId) ? count += 1 : set(...)
countMember(map, b) ==
  IF \E i \in 1..Len(map) : map[i].brokerId = b.id
    THEN [i \in 1..Len(map) |->
            IF map[i].brokerId = b.id
              THEN [map[i] EXCEPT !.referredCount = @ + 1]
              ELSE map[i]]
    ELSE Append(map, [brokerId |-> b.id, brokerName |-> b.name, referredCount |-> 1])

\* brokerMap after the first n members: its entries in insertion order.
RECURSIVE brokerMap(_, _)
brokerMap(members, n) ==
  IF n = 0 THEN << >>
  ELSE LET map == brokerMap(members, n - 1)
           b == brokerOf(members[n]) IN
       IF b = JNull THEN map ELSE countMember(map, b)

\* Array.prototype.sort((a, b) => b.key - a.key) on [key, item] pairs: descending
\* and stable (equal keys keep their order).
RECURSIVE sortDescending(_)
sortDescending(pairs) ==
  IF pairs = << >> THEN << >>
  ELSE LET top == CHOOSE i \in 1..Len(pairs) :
                    /\ \A j \in 1..Len(pairs) : pairs[j].key <= pairs[i].key
                    /\ \A j \in 1..(i - 1) : pairs[j].key < pairs[i].key
           rest == [k \in 1..(Len(pairs) - 1) |->
                      IF k < top THEN pairs[k] ELSE pairs[k + 1]] IN
       <<pairs[top]>> \o sortDescending(rest)

sortByReferredCount_unsorted(details) == details

\* .sort((a, b) => b.referredCount - a.referredCount)
sortByReferredCount(details) ==
  LET sorted == sortDescending([i \in 1..Len(details) |->
                                  [key |-> details[i].referredCount, item |-> details[i]]]) IN
  [i \in 1..Len(sorted) |-> sorted[i].item]

processBrokerStats(members, invitationLinks) ==
  LET map == brokerMap(members, Len(members))
      processedInvitationLinks == processInvitationLinks(invitationLinks) IN
  [totalMembers |-> Len(members),
   totalBrokers |-> Len(map),
   totalInvitationLinks |-> Len(processedInvitationLinks),
   brokerDetails |-> sortByReferredCount(map),
   invitationLinks |-> processedInvitationLinks]

inputsAfter_reversesMembers(members, invitationLinks) ==
  [members |-> [i \in 1..Len(members) |-> members[Len(members) + 1 - i]],
   invitationLinks |-> invitationLinks]

\* The arrays processBrokerStats was given, as it leaves them: it reads them
\* with forEach and map and sorts only the array it built from brokerMap.
inputsAfter(members, invitationLinks) ==
  [members |-> members, invitationLinks |-> invitationLinks]

\* ------------------------------------------------------------- state

VARIABLES
  \* the operation under way and what it was called with
  op,         \* "fetchFromEndpoint" | "fetchCircleMembers" | "getInvitationLinkStats" |
              \* "testCircleConnection" | "CacheManager"
  creds,      \* which of CIRCLE_API_KEY, CIRCLE_COMMUNITY_ID the environment sets
  retries,    \* options.retries (API_CONFIG.maxRetries when absent)
  aborted,    \* options.signal.aborted
  \* one call of fetchFromEndpoint
  fpc,        \* "idle" | "loop" | "send" | "inflight" | "returned" | "thrown"
  attempt,    \* the loop variable of the retry loop
  endpoint,   \* the URL requested: [resource, params, page]
  fres,       \* what the call returned, or the exception it threw
  \* history of the call in progress
  nAttempts,  \* fetch() calls made by this call (or by testCircleConnection)
  sleeps,     \* the delays slept by this call, in order
  log,        \* how each settled attempt was classified (kept for a call made on its own,
              \* and for the probes of testCircleConnection)
  endBody,    \* JSON.parse of the response text that ended the call, if one did
  cancelled,  \* the signal was triggered while an attempt was in flight
  \* fetchCircleMembers
  mpc,        \* where the operation stands
  variant,    \* index into parameterSets of the loop over the parameter variants
  membersResult,
  invitationLinksResult,
  allMembers,
  allInvitationLinks,
  result,     \* what fetchCircleMembers or testCircleConnection returned (or threw)
  outer,      \* what getInvitationLinkStats returned (or threw)
  seen,       \* per resource, how its variant requests ended: "success", "nonfatal", a fatal kind
  \* fetchAllPages
  ppc,        \* "idle" | "loop" | "await" | "done"
  page,
  consecutiveEmptyPages,
  maxPagesToFetch,
  allRecords,
  pageLog,    \* the pages requested and settled by a fetchAllPages called on its own:
              \* [page, records, failed]
  \* testCircleConnection
  results,    \* the entries pushed so far
  \* CacheManager
  cache,      \* the Map of the singleton: key -> CacheEntry
  storage,    \* what localStorage holds under 'circle-cache'
  now,        \* Date.now()
  ret,        \* the last call of the cache at the present time: its name, key and return
              \* value, and whether it deleted an entry it read
  written,    \* per key, the entry of the last set since the key was last cleared
  \* a function applied on its own, and the collection behind the API
  input,      \* the arguments the function is applied to
  output,     \* what each application returned, in order
  upstream,   \* per resource, the pages of records the API serves
  \* the attempt in flight, and the requests of the operation
  timeoutId,  \* the attempt's timer is pending: set by setTimeout, neither cleared nor fired
  elapsed,    \* the time since fetch() of the attempt was called, in milliseconds
  requests    \* fetch() calls made since the operation began (kept when a collection is served)

optVars == <<op, creds, retries, aborted>>
fetchVars == <<fpc, attempt, endpoint, fres>>
histVars == <<nAttempts, sleeps, log, endBody, cancelled>>
opVars == <<mpc, variant, membersResult, invitationLinksResult, allMembers,
            allInvitationLinks, result, outer, seen>>
pageVars == <<ppc, page, consecutiveEmptyPages, maxPagesToFetch, allRecords, pageLog>>
testVars == <<results>>

cacheVars == <<cache, storage, now, ret, written>>
applyVars == <<input, output, upstream>>
attemptVars == <<timeoutId, elapsed, requests>>
apiVars == <<optVars, fetchVars, histVars, opVars, pageVars, testVars>>

vars == <<apiVars, cacheVars, applyVars, attemptVars>>

None == [ctl |-> "none"]

Resources == {"members", "invitationLinks"}
Fatal == {"INVALID_CREDENTIALS", "CLOUDFLARE_BLOCKED"}

\* ------------------------------------------------- fetchFromEndpoint

CircleApiException(type) == [name |-> "CircleApiException", type |-> type]
CircleApiExceptionAt(type, status) ==
  [name |-> "CircleApiException", type |-> type, statusCode |-> status]

\* What fetch() (or response.text()) rejects with.
rejectionError(o) ==
  IF o.kind = "exception" THEN [name |-> "TypeError"] ELSE [name |-> "AbortError"]

Returned(v) == [ctl |-> "return", value |-> v]
Thrown(e) == [ctl |-> "throw", error |-> e]
Continue == [ctl |-> "continue"]

\* The try block without the "Don't retry for certain error types" branch.
tryBlock_retriesFatal(o, att, rts) ==
  IF o.kind # "response" THEN Thrown(rejectionError(o))
  ELSE IF ok(o.status) /\ includesJson(o.contentType) THEN
    IF o.text.json # NoJson
      THEN Returned([success |-> TRUE, data |-> o.text.json])
      ELSE Thrown(CircleApiExceptionAt("INVALID_RESPONSE", o.status))
  ELSE
    LET errorType == determineErrorType(o.status, o.contentType, o.text) IN
    IF att = rts
      THEN Thrown(CircleApiExceptionAt(errorType, o.status))
      ELSE Continue

\* The try block of one loop iteration, from the settled fetch() on.
tryBlock(o, att, rts) ==
  IF o.kind # "response" THEN Thrown(rejectionError(o))
  ELSE IF ok(o.status) /\ includesJson(o.contentType) THEN
    IF o.text.json # NoJson
      THEN Returned([success |-> TRUE, data |-> o.text.json])
      ELSE Thrown(CircleApiExceptionAt("INVALID_RESPONSE", o.status))
  ELSE
    LET errorType == determineErrorType(o.status, o.contentType, o.text) IN
    IF errorType = "INVALID_CREDENTIALS" \/ errorType = "CLOUDFLARE_BLOCKED"
      THEN Thrown(CircleApiExceptionAt(errorType, o.status))
    ELSE IF att = rts
      THEN Thrown(CircleApiExceptionAt(errorType, o.status))
    ELSE Continue

\* The catch block of one loop iteration.
catchBlock(error, att, rts) ==
  IF error.name = "CircleApiException"
    THEN Returned([success |-> FALSE, error |-> error])
  ELSE IF att = rts
    THEN Thrown(CircleApiException("NETWORK_ERROR"))
  ELSE Continue

\* One loop iteration, from the settled fetch() on.
loopBody(o, att, rts) ==
  LET t == tryBlock(o, att, rts) IN
  IF t.ctl = "throw" THEN catchBlock(t.error, att, rts) ELSE t

\* A schedule that keeps doubling past its last entry.
delayBefore_keepsDoubling(att) ==
  IF att >= 1 /\ att <= Len(retryDelays) /\ retryDelays[att] # 0
    THEN retryDelays[att]
    ELSE 2 * fallbackDelay

\* `API_CONFIG.retryDelays[attempt - 1] || 4000`
delayBefore(att) ==
  IF att >= 1 /\ att <= Len(retryDelays) /\ retryDelays[att] # 0
    THEN retryDelays[att]
    ELSE fallbackDelay

\* How an attempt's end is classified, for the history.
classOf(o) ==
  IF o.kind # "response" THEN o.kind
  ELSE IF ok(o.status) /\ includesJson(o.contentType) THEN
    IF o.text.json # NoJson THEN "success" ELSE "INVALID_RESPONSE"
  ELSE determineErrorType(o.status, o.contentType, o.text)

\* The call begins: const {timeout, retries, signal} = options; attempt = 0.
beginFetch(ep) ==
  /\ fpc' = "loop"
  /\ attempt' = 0
  /\ endpoint' = ep
  /\ fres' = None
  /\ nAttempts' = 0
  /\ sleeps' = << >>
  /\ log' = << >>
  /\ endBody' = None
  /\ cancelled' = FALSE
  /\ UNCHANGED <<retries, aborted>>

\* The caller has taken the call's outcome.
endFetch ==
  /\ fpc' = "idle"
  /\ attempt' = 0
  /\ endpoint' = None
  /\ fres' = None
  /\ nAttempts' = 0
  /\ sleeps' = << >>
  /\ log' = << >>
  /\ endBody' = None
  /\ cancelled' = FALSE
  /\ UNCHANGED <<retries, aborted>>

\* `attempt <= retries`, the condition of the retry loop.
loopCondition(att, rts) == att <= rts

\* A retry loop that forgets to count its attempts.
nextAttempt_notCounted(att) == att

\* `attempt++`
nextAttempt(att) == att + 1

\* `await new Promise(resolve => setTimeout(resolve, delay))` before a retry.
FetchSleep ==
  /\ fpc = "loop"
  /\ loopCondition(attempt, retries)
  /\ attempt > 0
  /\ sleeps' = Append(sleeps, delayBefore(attempt))
  /\ fpc' = "send"
  /\ UNCHANGED <<attempt, endpoint, fres, nAttempts, log, endBody, cancelled>>
  /\ UNCHANGED <<optVars, opVars, pageVars, testVars, cacheVars, applyVars, attemptVars>>

\* A fetch() that does not wait for the one before it.
FetchSend_whileInFlight ==
  /\ fpc \in {"send", "loop", "inflight"}
  /\ loopCondition(attempt, retries)
  /\ nAttempts' = nAttempts + 1
  /\ fpc' = "inflight"
  /\ timeoutId' = TRUE
  /\ elapsed' = 0
  /\ requests' = IF upstream = None THEN requests ELSE requests + 1
  /\ UNCHANGED <<attempt, endpoint, fres, sleeps, log, endBody, cancelled>>
  /\ UNCHANGED <<optVars, opVars, pageVars, testVars, cacheVars, applyVars>>

\* `fetch(endpoint, {signal: combinedSignal})` is called.
FetchSend ==
  /\ \/ fpc = "send"
     \/ fpc = "loop" /\ loopCondition(attempt, retries) /\ attempt = 0
  /\ nAttempts' = nAttempts + 1
  /\ fpc' = "inflight"
  /\ timeoutId' = TRUE
  /\ elapsed' = 0
  /\ requests' = IF upstream = None THEN requests ELSE requests + 1
  /\ UNCHANGED <<attempt, endpoint, fres, sleeps, log, endBody, cancelled>>
  /\ UNCHANGED <<optVars, opVars, pageVars, testVars, cacheVars, applyVars>>

\* The loop ends without a return: `throw new CircleApiException('UNKNOWN_ERROR', ...)`.
FetchLoopExit ==
  /\ fpc = "loop"
  /\ ~loopCondition(attempt, retries)
  /\ fpc' = "thrown"
  /\ fres' = CircleApiException("UNKNOWN_ERROR")
  /\ UNCHANGED <<attempt, endpoint, nAttempts, sleeps, log, endBody, cancelled>>
  /\ UNCHANGED <<optVars, opVars, pageVars, testVars, cacheVars, applyVars, attemptVars>>

\* The attempt settles with o and the rest of the loop iteration runs.
settle(o) ==
  LET r == loopBody(o, attempt, retries) IN
  /\ log' = IF op = "fetchFromEndpoint" THEN Append(log, classOf(o)) ELSE log
  /\ endBody' = IF r.ctl # "continue" /\ o.kind = "response" THEN o.text.json ELSE None
  /\ IF r.ctl = "return" THEN
       /\ fpc' = "returned"
       /\ fres' = r.value
       /\ attempt' = attempt
     ELSE IF r.ctl = "throw" THEN
       /\ fpc' = "thrown"
       /\ fres' = r.error
       /\ attempt' = attempt
     ELSE
       /\ fpc' = "loop"
       /\ fres' = fres
       /\ attempt' = nextAttempt(attempt)
  /\ timeoutId' = FALSE
  /\ elapsed' = 0
  /\ UNCHANGED <<endpoint, nAttempts, sleeps, cancelled, requests>>
  /\ UNCHANGED <<optVars, opVars, pageVars, testVars, cacheVars, applyVars>>

\* The upstream answers the attempt in flight, or it fails or times out.
FetchSettle(answers) ==
  /\ fpc = "inflight"
  /\ ~aborted
  /\ \E o \in answers \cup Rejections : settle(o)

\* fetch() rejects because the caller's signal is aborted.
FetchAbort ==
  /\ fpc = "inflight"
  /\ aborted
  /\ settle(CallerAbort)

\* The caller triggers its cancellation signal.
CallerCancels ==
  /\ ~aborted
  /\ fpc \in {"loop", "send", "inflight"}
  /\ aborted' = TRUE
  /\ cancelled' = (cancelled \/ fpc = "inflight")
  /\ UNCHANGED <<op, creds, retries, fetchVars, nAttempts, sleeps, log, endBody>>
  /\ UNCHANGED <<opVars, pageVars, testVars, cacheVars, applyVars, attemptVars>>

\* The pending timer of the attempt fires: `() => controller.abort()`, and
\* the fetch() the controller's signal was given to rejects.
FetchTimeout ==
  /\ fpc = "inflight"
  /\ timeoutId
  /\ elapsed >= timeout
  /\ settle([kind |-> "timeout"])

\* fetch() rejects with a network-level exception.
FetchRejects ==
  /\ fpc = "inflight"
  /\ settle([kind |-> "exception"])

\* fetch() resolves with the response's head, and `clearTimeout(timeoutId)`
\* runs before `await response.text()`.
FetchHeaders ==
  /\ fpc = "inflight"
  /\ fpc' = "body"
  /\ timeoutId' = FALSE
  /\ UNCHANGED <<attempt, endpoint, fres, elapsed, requests>>
  /\ UNCHANGED <<optVars, histVars, opVars, pageVars, testVars, cacheVars, applyVars>>

\* response.text() resolves with the body, or rejects, and the rest of the
\* loop iteration runs.
FetchBody(answers) ==
  /\ fpc = "body"
  /\ \E o \in answers \cup {[kind |-> "exception"]} : settle(o)

\* ------------------------------------------------------ fetchAllPages

\* `data.records || data.members || data.community_members || data.data || []`
recordsOf(data) ==
  IF Has(data, "records") THEN data.records
  ELSE IF Has(data, "members") THEN data.members
  ELSE IF Has(data, "community_members") THEN data.community_members
  ELSE IF Has(data, "data") THEN data.data
  ELSE << >>

hasMorePages_never(initialData) == FALSE

\* `initialData.has_next_page && initialData.page_count && initialData.page_count > 1`
hasMorePages(initialData) ==
  /\ Has(initialData, "has_next_page")
  /\ initialData.has_next_page
  /\ num(initialData, "page_count") # 0
  /\ num(initialData, "page_count") > 1

\* A page limit without the cap.
min_uncapped(a, b) == a

min(a, b) == IF a <= b THEN a ELSE b

\* The first statement of fetchAllPages: reading a field of null throws.
initialRecords(initialData) ==
  IF initialData = JNull
    THEN Thrown([name |-> "TypeError"])
    ELSE Returned(recordsOf(initialData.v))

\* fetchAllPages up to its first request; initialData is not null.
enterFetchAllPages(initialData) ==
  /\ allRecords' = recordsOf(initialData)
  /\ pageLog' = << >>
  /\ consecutiveEmptyPages' = 0
  /\ IF hasMorePages(initialData)
       THEN /\ maxPagesToFetch' = min(initialData.page_count, maxPagesCap)
            /\ page' = 2
            /\ ppc' = "loop"
       ELSE /\ maxPagesToFetch' = 0
            /\ page' = 0
            /\ ppc' = "done"

\* The resource whose collection fetchAllPages is reading.
pagedResource == IF mpc = "membersPages" THEN "members" ELSE "invitationLinks"

\* `for (page = 2; page <= maxPagesToFetch; page++)`: the next page is requested
\* from buildEndpoint(resource, parameterSets[0]) with page=N appended, or the
\* loop ends.
PageLoop ==
  /\ mpc \in {"membersPages", "linksPages"}
  /\ ppc = "loop"
  /\ IF page <= maxPagesToFetch
       THEN /\ beginFetch([resource |-> pagedResource, params |-> 1, page |-> page])
            /\ ppc' = "await"
       ELSE /\ ppc' = "done"
            /\ UNCHANGED <<fetchVars, histVars, retries, aborted>>
  /\ UNCHANGED <<op, creds, opVars, page, consecutiveEmptyPages, maxPagesToFetch,
                 allRecords, pageLog, testVars, cacheVars, applyVars, attemptVars>>

\* The records of a settled page request; << >> stands for an empty page, a
\* failure result, a rejected call and a body without records alike (each of
\* them adds one to consecutiveEmptyPages).
pageRecords ==
  IF fpc = "returned" /\ fres.success /\ fres.data # JNull
    THEN recordsOf(fres.data.v)
    ELSE << >>

\* A counter that is never reset.
countAfter_neverResets(count, records) == IF records # << >> THEN count ELSE count + 1

\* consecutiveEmptyPages after a page: `consecutiveEmptyPages = 0` on a page with
\* records, `consecutiveEmptyPages++` on an empty or failed one.
countAfter(count, records) == IF records # << >> THEN 0 ELSE count + 1

\* A paginator that gives up at the first empty or failed page.
stopsPaging_atFirst(count) == count >= 1

\* `if (consecutiveEmptyPages >= maxConsecutiveEmptyPages) break`
stopsPaging(count) == count >= maxConsecutiveEmptyPages

\* A paginator that puts the new page in front.
accumulate_inFront(all, records) == records \o all

\* `allRecords = [...allRecords, ...pageRecords]`
accumulate(all, records) == all \o records

\* The page request has ended: the rest of the loop body.
PageSettled ==
  /\ mpc \in {"membersPages", "linksPages"}
  /\ ppc = "await"
  /\ fpc \in {"returned", "thrown"}
  /\ consecutiveEmptyPages' = countAfter(consecutiveEmptyPages, pageRecords)
  /\ IF pageRecords # << >>
       THEN /\ allRecords' = accumulate(allRecords, pageRecords)
            /\ page' = page + 1
            /\ ppc' = "loop"
       ELSE /\ allRecords' = allRecords
            /\ IF stopsPaging(consecutiveEmptyPages')
                 THEN page' = page /\ ppc' = "done"
                 ELSE page' = page + 1 /\ ppc' = "loop"
  /\ pageLog' = IF op = "fetchAllPages"
                  THEN Append(pageLog, [page |-> page, records |-> pageRecords,
                                        failed |-> ~(fpc = "returned" /\ fres.success)])
                  ELSE pageLog
  /\ endFetch
  /\ UNCHANGED <<op, creds, opVars, maxPagesToFetch, testVars, cacheVars, applyVars, attemptVars>>

\* `return allRecords` to fetchCircleMembers.
PagesReturn ==
  /\ mpc \in {"membersPages", "linksPages"}
  /\ ppc = "done"
  /\ IF mpc = "membersPages"
       THEN /\ allMembers' = allRecords
            /\ allInvitationLinks' = allInvitationLinks
            /\ mpc' = "linksData"
       ELSE /\ allInvitationLinks' = allRecords
            /\ allMembers' = allMembers
            /\ mpc' = "finish"
  /\ ppc' = "idle"
  /\ page' = 0
  /\ consecutiveEmptyPages' = 0
  /\ maxPagesToFetch' = 0
  /\ allRecords' = << >>
  /\ pageLog' = pageLog
  /\ UNCHANGED <<optVars, fetchVars, histVars, variant, membersResult,
                 invitationLinksResult, result, outer, seen, testVars, cacheVars, applyVars, attemptVars>>

\* ------------------------------------------------- fetchCircleMembers

getCredentials_onlyApiKey(env) ==
  IF ~env.apiKey
    THEN Thrown(CircleApiException("INVALID_CREDENTIALS"))
    ELSE Returned(env)

\* getCredentials throws unless both environment variables are set.
getCredentials(env) ==
  IF ~env.apiKey \/ ~env.communityId
    THEN Thrown(CircleApiException("INVALID_CREDENTIALS"))
    ELSE Returned(env)

\* CircleApiException.toDetailedError; statusCode 0 stands for undefined.
toDetailedError(e) == [type |-> e.type, statusCode |-> num(e, "statusCode")]

fetchCircleMembers_catch_rethrows(error) == Thrown(error)

\* The catch block of fetchCircleMembers.
fetchCircleMembers_catch(error) ==
  IF error.name = "CircleApiException"
    THEN Returned([success |-> FALSE, error |-> toDetailedError(error)])
    ELSE Returned([success |-> FALSE,
                   error |-> [type |-> "UNKNOWN_ERROR", statusCode |-> 0]])

NotTried == [success |-> FALSE]

\* Where the loop over parameterSets stops next, after the members step of
\* variant v: the invitation-links request of v, or as after that step.
afterLinksStep_retriesMembers(v, m, l) ==
  IF v = Len(parameterSets) THEN [to |-> "afterLoop"]
  ELSE [to |-> "call", resource |-> "members", variant |-> v + 1]

afterLinksStep(v, m, l) ==
  IF (m.success /\ l.success) \/ v = Len(parameterSets) THEN [to |-> "afterLoop"]
  ELSE IF ~m.success THEN [to |-> "call", resource |-> "members", variant |-> v + 1]
  ELSE [to |-> "call", resource |-> "invitationLinks", variant |-> v + 1]

afterMembersStep(v, m, l) ==
  IF ~l.success
    THEN [to |-> "call", resource |-> "invitationLinks", variant |-> v]
    ELSE afterLinksStep(v, m, l)

\* The loop runs on to its next request, or ends.
proceed(next) ==
  IF next.to = "call"
    THEN /\ beginFetch([resource |-> next.resource, params |-> next.variant, page |-> 1])
         /\ variant' = next.variant
         /\ mpc' = IF next.resource = "members" THEN "awaitMembers" ELSE "awaitLinks"
    ELSE /\ endFetch
         /\ variant' = variant
         /\ mpc' = "afterLoop"

\* How a settled variant request ended, for the history.
variantClass ==
  IF fpc = "thrown" THEN "nonfatal"
  ELSE IF fres.success THEN "success"
  ELSE IF fres.error.type \in Fatal THEN fres.error.type
  ELSE "nonfatal"

\* fetchCircleMembers up to its first request.
FetchCircleMembers_enter ==
  /\ op \in {"fetchCircleMembers", "getInvitationLinkStats"}
  /\ mpc = "start"
  /\ IF getCredentials(creds).ctl = "throw"
       THEN /\ result' = fetchCircleMembers_catch(getCredentials(creds).error)
            /\ mpc' = "done"
            /\ UNCHANGED <<variant, membersResult, invitationLinksResult, fetchVars,
                           histVars, retries, aborted>>
       ELSE /\ membersResult' = NotTried
            /\ invitationLinksResult' = NotTried
            /\ proceed([to |-> "call", resource |-> "members", variant |-> 1])
            /\ result' = result
  /\ UNCHANGED <<op, creds, allMembers, allInvitationLinks, outer, seen, pageVars, testVars, cacheVars, applyVars, attemptVars>>

\* The members request of a variant has ended.
MembersVariantSettled ==
  /\ mpc = "awaitMembers"
  /\ fpc \in {"returned", "thrown"}
  /\ seen' = [seen EXCEPT !["members"] = Append(@, variantClass)]
  /\ IF fpc = "thrown"
       THEN /\ result' = fetchCircleMembers_catch(fres)
            /\ mpc' = "done"
            /\ endFetch
            /\ UNCHANGED <<variant, membersResult>>
       ELSE /\ membersResult' = fres
            /\ proceed(afterMembersStep(variant, fres, invitationLinksResult))
            /\ result' = result
  /\ UNCHANGED <<op, creds, invitationLinksResult, allMembers, allInvitationLinks, outer,
                 pageVars, testVars, cacheVars, applyVars, attemptVars>>

\* The invitation-links request of a variant has ended.
LinksVariantSettled ==
  /\ mpc = "awaitLinks"
  /\ fpc \in {"returned", "thrown"}
  /\ seen' = [seen EXCEPT !["invitationLinks"] = Append(@, variantClass)]
  /\ IF fpc = "thrown"
       THEN /\ result' = fetchCircleMembers_catch(fres)
            /\ mpc' = "done"
            /\ endFetch
            /\ UNCHANGED <<variant, invitationLinksResult>>
       ELSE /\ invitationLinksResult' = fres
            /\ proceed(afterLinksStep(variant, membersResult, fres))
            /\ result' = result
  /\ UNCHANGED <<op, creds, membersResult, allMembers, allInvitationLinks, outer,
                 pageVars, testVars, cacheVars, applyVars, attemptVars>>

\* After the loop: a members failure of a non-retryable kind is returned.
AfterLoop ==
  /\ mpc = "afterLoop"
  /\ IF ~membersResult.success /\ membersResult.error.type \in Fatal
       THEN /\ result' = Returned([success |-> FALSE,
                                   error |-> toDetailedError(membersResult.error)])
            /\ mpc' = "done"
       ELSE /\ result' = result
            /\ mpc' = "membersData"
  /\ UNCHANGED <<optVars, fetchVars, histVars, variant, membersResult,
                 invitationLinksResult, allMembers, allInvitationLinks, outer, seen,
                 pageVars, testVars, cacheVars, applyVars, attemptVars>>

\* `if (membersResult.success) allMembers = await fetchAllPages(...)`, and the
\* same for the invitation links: fetchAllPages is entered, throws on a null
\* body, or is skipped for a resource that failed.
ResourceData ==
  /\ mpc \in {"membersData", "linksData"}
  /\ LET res == IF mpc = "membersData" THEN membersResult ELSE invitationLinksResult IN
     IF res.success /\ initialRecords(res.data).ctl = "throw"
       THEN /\ result' = fetchCircleMembers_catch(initialRecords(res.data).error)
            /\ mpc' = "done"
            /\ UNCHANGED pageVars
     ELSE IF res.success
       THEN /\ enterFetchAllPages(res.data.v)
            /\ mpc' = IF mpc = "membersData" THEN "membersPages" ELSE "linksPages"
            /\ result' = result
     ELSE /\ mpc' = IF mpc = "membersData" THEN "linksData" ELSE "finish"
          /\ result' = result
          /\ UNCHANGED pageVars
  /\ UNCHANGED <<optVars, fetchVars, histVars, variant, membersResult,
                 invitationLinksResult, allMembers, allInvitationLinks, outer, seen,
                 testVars, cacheVars, applyVars, attemptVars>>

\* `return {success: true, data: processBrokerStats(allMembers, allInvitationLinks)}`
Finish ==
  /\ mpc = "finish"
  /\ result' = Returned([success |-> TRUE,
                         data |-> processBrokerStats(allMembers, allInvitationLinks)])
  /\ mpc' = "done"
  /\ UNCHANGED <<optVars, fetchVars, histVars, variant, membersResult,
                 invitationLinksResult, allMembers, allInvitationLinks, outer, seen,
                 pageVars, testVars, cacheVars, applyVars, attemptVars>>

\* --------------------------------------------- getInvitationLinkStats

RECURSIVE sumJoined(_)
sumJoined(links) ==
  IF links = << >> THEN 0
  ELSE Len(links[1].joined_members) + sumJoined(Tail(links))

\* .map(link => ({link, memberCount})).sort(...).slice(0, 10)
topPerformingLinks(links) ==
  LET sorted == sortDescending([i \in 1..Len(links) |->
                                  [key |-> Len(links[i].joined_members), item |-> links[i]]]) IN
  [i \in 1..min(Len(sorted), 10) |-> [link |-> sorted[i].item, memberCount |-> sorted[i].key]]

\* getInvitationLinkStats after `await fetchCircleMembers(options)`.
invitationLinkStats(r) ==
  IF r.ctl = "throw" THEN
    Returned([success |-> FALSE, error |-> [type |-> "UNKNOWN_ERROR", statusCode |-> 0]])
  ELSE IF ~r.value.success THEN Returned(r.value)
  ELSE Returned([success |-> TRUE,
                 data |-> [invitationLinks |-> r.value.data.invitationLinks,
                           totalLinks |-> Len(r.value.data.invitationLinks),
                           totalMembersThroughLinks |-> sumJoined(r.value.data.invitationLinks),
                           topPerformingLinks |->
                             topPerformingLinks(r.value.data.invitationLinks)]])

GetInvitationLinkStats_return ==
  /\ op = "getInvitationLinkStats"
  /\ mpc = "done"
  /\ outer = None
  /\ outer' = invitationLinkStats(result)
  /\ UNCHANGED <<optVars, fetchVars, histVars, mpc, variant, membersResult,
                 invitationLinksResult, allMembers, allInvitationLinks, result, seen,
                 pageVars, testVars, cacheVars, applyVars, attemptVars>>

\* ------------------------------------------------ testCircleConnection

\* The endpoints probed: buildEndpoint('members'), buildEndpoint('invitationLinks').
probeEndpoints == <<"members", "invitationLinks">>

\* The entry pushed for a probe that settled with o.
probeEntry(ep, o) ==
  IF o.kind = "response"
    THEN [endpoint |-> ep, status |-> o.status, contentType |-> o.contentType,
          isJson |-> includesJson(o.contentType), isCloudflare |-> isCloudflareBlocked(o.text)]
    ELSE [endpoint |-> ep, status |-> 0, contentType |-> <<"error">>,
          isJson |-> FALSE, isCloudflare |-> FALSE]

pushEntry_retriesFailed(entries, ep, o) ==
  IF o.kind = "response" THEN Append(entries, probeEntry(ep, o)) ELSE entries

\* results.push({endpoint, ...}) in the try block or in the catch block of a probe.
pushEntry(entries, ep, o) == Append(entries, probeEntry(ep, o))

\* The catch block of testCircleConnection.
testCircleConnection_catch(error) ==
  Returned([success |-> FALSE, results |-> << >>])

\* testCircleConnection up to its first probe.
TestCircleConnection_enter ==
  /\ op = "testCircleConnection"
  /\ mpc = "start"
  /\ IF getCredentials(creds).ctl = "throw"
       THEN /\ result' = testCircleConnection_catch(getCredentials(creds).error)
            /\ mpc' = "done"
       ELSE /\ result' = result
            /\ mpc' = "probeSend"
  /\ UNCHANGED <<optVars, fetchVars, histVars, variant, membersResult,
                 invitationLinksResult, allMembers, allInvitationLinks, outer, seen,
                 pageVars, testVars, cacheVars, applyVars, attemptVars>>

\* `fetch(endpoint, {signal: controller.signal})` of the next endpoint.
ProbeSend ==
  /\ mpc = "probeSend"
  /\ mpc' = "probeWait"
  /\ nAttempts' = nAttempts + 1
  /\ UNCHANGED <<optVars, fetchVars, sleeps, log, endBody, cancelled, variant, membersResult,
                 invitationLinksResult, allMembers, allInvitationLinks, result, outer,
                 seen, pageVars, testVars, cacheVars, applyVars, attemptVars>>

\* The probe settles: its entry is pushed, and after the last one the
\* operation returns.
ProbeSettle(answers) ==
  /\ mpc = "probeWait"
  /\ \E o \in answers \cup Rejections :
       LET pushed == pushEntry(results, probeEndpoints[Len(results) + 1], o) IN
       /\ results' = pushed
       /\ log' = Append(log, classOf(o))
       /\ IF Len(pushed) = Len(probeEndpoints)
            THEN /\ result' = Returned([success |-> TRUE, results |-> pushed])
                 /\ mpc' = "done"
            ELSE /\ result' = result
                 /\ mpc' = "probeSend"
  /\ UNCHANGED <<optVars, fetchVars, nAttempts, sleeps, endBody, cancelled, variant,
                 membersResult, invitationLinksResult, allMembers, allInvitationLinks,
                 outer, seen, pageVars, cacheVars, applyVars, attemptVars>>

\* ------------------------------------------------------- CacheManager

\* Times are counted in units of 5 minutes.
DEFAULT_TTL == 1
MAX_AGE == 6
manualTtl == 288
VERSION == "1.0.0"

CACHE_KEYS == [MEMBERS |-> "circle-members", MANUAL_DATA |-> "circle-manual-data"]
Keys == {CACHE_KEYS.MEMBERS, CACHE_KEYS.MANUAL_DATA}

\* The data written, and the options set is called with ({} is << >>).
Data == {"d1", "d2"}
Options == {<< >>, [ttl |-> 2], [ttl |-> manualTtl, source |-> "manual"]}

\* A return value: null, or data.
null == [isNull |-> TRUE]
some(d) == [isNull |-> FALSE, data |-> d]

\* Map.prototype.set and Map.prototype.delete
mapSet(m, key, e) == [k \in DOMAIN m \cup {key} |-> IF k = key THEN e ELSE m[k]]
mapDelete(m, key) == [k \in DOMAIN m \ {key} |-> m[k]]

\* saveToStorage in the browser: localStorage holds the entries of the Map.
saveToStorage(c) == c

\* A set that updates the entry under the key in place.
set_keepsTimestamp(c, key, data, options, t) ==
  LET ttl == orNum(num(options, "ttl"), DEFAULT_TTL)
      entry == [data |-> data,
                timestamp |-> IF Has(c, key) THEN c[key].timestamp ELSE t,
                expiresAt |-> t + ttl,
                source |-> orStr(str(options, "source"), "api"),
                version |-> VERSION] IN
  mapSet(c, key, entry)

\* CacheManager.set at time t: the Map afterwards.
set(c, key, data, options, t) ==
  LET ttl == orNum(num(options, "ttl"), DEFAULT_TTL)
      entry == [data |-> data,
                timestamp |-> t,
                expiresAt |-> t + ttl,
                source |-> orStr(str(options, "source"), "api"),
                version |-> VERSION] IN
  mapSet(c, key, entry)

\* A get that never looks at expiresAt.
get_ignoresExpiry(c, key, t) ==
  IF ~Has(c, key) THEN [cache |-> c, value |-> null]
  ELSE [cache |-> c, value |-> some(c[key].data)]

\* CacheManager.get at time t: the Map afterwards and the value returned.
get(c, key, t) ==
  IF ~Has(c, key) THEN [cache |-> c, value |-> null]
  ELSE IF t > c[key].expiresAt THEN [cache |-> mapDelete(c, key), value |-> null]
  ELSE [cache |-> c, value |-> some(c[key].data)]

\* A getStale that returns null for an entry that is too old, and keeps it.
getStale_keepsTooOld(c, key, t) ==
  IF ~Has(c, key) THEN [cache |-> c, value |-> null]
  ELSE IF t <= c[key].expiresAt THEN [cache |-> c, value |-> some(c[key].data)]
  ELSE IF t - c[key].timestamp > MAX_AGE THEN [cache |-> c, value |-> null]
  ELSE [cache |-> c, value |-> some(c[key].data)]

\* CacheManager.getStale at time t: the Map afterwards and the value returned.
getStale(c, key, t) ==
  IF ~Has(c, key) THEN [cache |-> c, value |-> null]
  ELSE IF t <= c[key].expiresAt THEN [cache |-> c, value |-> some(c[key].data)]
  ELSE IF t - c[key].timestamp > MAX_AGE THEN [cache |-> mapDelete(c, key), value |-> null]
  ELSE [cache |-> c, value |-> some(c[key].data)]

called(name, key, value) == [call |-> name, key |-> key, value |-> value, removed |-> FALSE]

\* A call of set, with the data and options it was given.
calledSet(key, data, options) ==
  [call |-> "set", key |-> key, value |-> null, removed |-> FALSE,
   data |-> data, options |-> options]

Set ==
  /\ \E key \in Keys, data \in Data, options \in Options :
       /\ cache' = set(cache, key, data, options, now)
       /\ written' = mapSet(written, key, cache'[key])
       /\ ret' = calledSet(key, data, options)
  /\ storage' = saveToStorage(cache')
  /\ UNCHANGED <<now, apiVars, applyVars, attemptVars>>

\* A read: the Map is saved when the read deleted the entry.
read(name, r, key) ==
  /\ cache' = r.cache
  /\ storage' = IF r.cache # cache THEN saveToStorage(r.cache) ELSE storage
  /\ ret' = [called(name, key, r.value) EXCEPT !.removed = (r.cache # cache)]

Get ==
  /\ \E key \in Keys : read("get", get(cache, key, now), key)
  /\ UNCHANGED <<now, written, apiVars, applyVars, attemptVars>>

GetStale ==
  /\ \E key \in Keys : read("getStale", getStale(cache, key, now), key)
  /\ UNCHANGED <<now, written, apiVars, applyVars, attemptVars>>

Clear ==
  /\ \E key \in Keys :
       /\ cache' = mapDelete(cache, key)
       /\ written' = mapDelete(written, key)
       /\ ret' = called("clear", key, null)
  /\ storage' = saveToStorage(cache')
  /\ UNCHANGED <<now, apiVars, applyVars, attemptVars>>

ClearAll ==
  /\ cache' = << >>
  /\ written' = << >>
  /\ ret' = called("clearAll", "", null)
  /\ storage' = saveToStorage(cache')
  /\ UNCHANGED <<now, apiVars, applyVars, attemptVars>>

\* ttl of API data in cacheUtils.storeMemberData: 5 * 60 * 1000 ms.
apiTtl == 1

\* What getMemberData returns for data found.
memberData(d, source, isFresh) ==
  [isNull |-> FALSE, data |-> d, source |-> source, isFresh |-> isFresh]

\* cacheUtils.getMemberData at time t: the Map afterwards and the value returned.
getMemberData(c, t) ==
  LET fresh == get(c, CACHE_KEYS.MEMBERS, t)
      stale == getStale(fresh.cache, CACHE_KEYS.MEMBERS, t)
      manual == get(stale.cache, CACHE_KEYS.MANUAL_DATA, t) IN
  IF ~fresh.value.isNull
    THEN [cache |-> fresh.cache, value |-> memberData(fresh.value.data, "api-cache", TRUE)]
  ELSE IF ~stale.value.isNull
    THEN [cache |-> stale.cache, value |-> memberData(stale.value.data, "api-cache", FALSE)]
  ELSE IF ~manual.value.isNull
    THEN [cache |-> manual.cache, value |-> memberData(manual.value.data, "manual", TRUE)]
  ELSE [cache |-> manual.cache, value |-> null]

\* cacheUtils.storeMemberData at time t: the key written and the Map afterwards.
storeMemberData(c, data, source, t) ==
  LET key == IF source = "manual" THEN CACHE_KEYS.MANUAL_DATA ELSE CACHE_KEYS.MEMBERS
      ttl == IF source = "manual" THEN manualTtl ELSE apiTtl IN
  [key |-> key, cache |-> set(c, key, data, [source |-> source, ttl |-> ttl], t)]

GetMemberData ==
  /\ read("getMemberData", getMemberData(cache, now), CACHE_KEYS.MEMBERS)
  /\ UNCHANGED <<now, written, apiVars, applyVars, attemptVars>>

StoreMemberData ==
  /\ \E data \in Data, source \in {"api", "manual"} :
       LET stored == storeMemberData(cache, data, source, now) IN
       /\ cache' = stored.cache
       /\ written' = mapSet(written, stored.key, stored.cache[stored.key])
       /\ ret' = called("storeMemberData", stored.key, null)
  /\ storage' = saveToStorage(cache')
  /\ UNCHANGED <<now, apiVars, applyVars, attemptVars>>

\* loadFromStorage at time t over what localStorage holds: the Map afterwards.
loadFromStorage(stored, t) ==
  [k \in {key \in DOMAIN stored : ~(t - stored[key].timestamp > MAX_AGE)} |-> stored[k]]

\* The page is loaded again: a new CacheManager is constructed, and its Map is
\* saved when the load cleaned entries.
Reload ==
  /\ cache' = loadFromStorage(storage, now)
  /\ storage' = IF cache' # storage THEN saveToStorage(cache') ELSE storage
  /\ ret' = [call |-> "reload"]
  /\ UNCHANGED <<now, written, apiVars, applyVars, attemptVars>>

\* Time passes; ret is the call made at the present time, if any.
Tick ==
  /\ now < MaxTime
  /\ now' = now + 1
  /\ ret' = [call |-> "none"]
  /\ UNCHANGED <<cache, storage, written, apiVars, applyVars, attemptVars>>

\* A CacheManager just constructed over an empty localStorage.
cacheEmpty ==
  /\ cache = << >>
  /\ storage = << >>
  /\ now = 0
  /\ ret = [call |-> "none"]
  /\ written = << >>

\* No attempt is in flight and no request has been made.
noTimer ==
  /\ timeoutId = FALSE
  /\ elapsed = 0
  /\ requests = 0

\* No function is being applied on its own, and no collection is served.
nothingApplied ==
  /\ input = None
  /\ output = << >>
  /\ upstream = None

\* ---------------------------------------------- SpecMembers

response(status, contentType, text) ==
  [kind |-> "response", status |-> status, contentType |-> contentType, text |-> text]

\* Answers that are not a JSON document: a refusal of the credentials, a
\* challenge page, a server error, a JSON content type on a body that is not
\* JSON, and a client error the classifier has no kind for.
OpFailures ==
  {response(403, <<"text/html">>, [words |-> <<"oops">>, json |-> NoJson]),
   response(200, <<"text/html">>, [words |-> <<"Checking Your Browser", "Ray ID">>, json |-> NoJson]),
   response(503, <<"text/html">>, [words |-> <<"oops">>, json |-> NoJson]),
   response(200, <<"application/json">>, [words |-> <<"oops">>, json |-> NoJson]),
   response(404, <<"application/json">>, textOf(JObj([count |-> 0])))}

\* The JSON documents the upstream holds for the page an endpoint names.
OpDocs(ep) ==
  IF ep.resource = "members" /\ ep.page = 1 THEN
    {JNull,
     JObj([members |-> <<mNone, mFlat>>, has_next_page |-> FALSE]),
     JObj([records |-> <<mNested>>, has_next_page |-> TRUE, page_count |-> MaxPageCount])}
  ELSE IF ep.resource = "members" THEN
    {JObj([records |-> << >>]), JObj([records |-> <<mNested>>])}
  ELSE IF ep.page = 1 THEN
    {JObj([records |-> <<lnk>>]),
     JObj([records |-> <<lnk>>, has_next_page |-> TRUE, page_count |-> MaxPageCount])}
  ELSE
    {JObj([records |-> << >>]), JObj([records |-> <<lnk>>])}

\* What the upstream answers a request of an operation with.
OpAnswers(ep) ==
  IF ep = None THEN {}
  ELSE OpFailures \cup {response(200, <<"application/json">>, textOf(d)) : d \in OpDocs(ep)}

\* The values of options.retries the operations are called with.
OpRetriesInputs == {0 - 1, 0, 1}

InitMembers ==
  /\ op \in {"fetchCircleMembers", "getInvitationLinkStats", "testCircleConnection"}
  /\ creds \in [apiKey : BOOLEAN, communityId : BOOLEAN]
  /\ retries \in OpRetriesInputs
  /\ aborted = FALSE
  /\ fpc = "idle"
  /\ attempt = 0
  /\ endpoint = None
  /\ fres = None
  /\ nAttempts = 0
  /\ sleeps = << >>
  /\ log = << >>
  /\ endBody = None
  /\ cancelled = FALSE
  /\ mpc = "start"
  /\ variant = 0
  /\ membersResult = None
  /\ invitationLinksResult = None
  /\ allMembers = << >>
  /\ allInvitationLinks = << >>
  /\ result = None
  /\ outer = None
  /\ seen = [r \in Resources |-> << >>]
  /\ ppc = "idle"
  /\ page = 0
  /\ consecutiveEmptyPages = 0
  /\ maxPagesToFetch = 0
  /\ allRecords = << >>
  /\ pageLog = << >>
  /\ results = << >>
  /\ cacheEmpty
  /\ noTimer
  /\ nothingApplied

NextMembers ==
  \/ FetchCircleMembers_enter
  \/ MembersVariantSettled
  \/ LinksVariantSettled
  \/ AfterLoop
  \/ ResourceData
  \/ PageLoop
  \/ PageSettled
  \/ PagesReturn
  \/ Finish
  \/ GetInvitationLinkStats_return
  \/ TestCircleConnection_enter
  \/ ProbeSend
  \/ ProbeSettle(OpAnswers([resource |-> probeEndpoints[Len(results) + 1], page |-> 1]))
  \/ FetchSleep
  \/ FetchSend
  \/ FetchLoopExit
  \/ FetchSettle(OpAnswers(endpoint))
  \/ FetchAbort
  \/ CallerCancels

SpecMembers == InitMembers /\ [][NextMembers]_vars

\* ------------------------------------------------ SpecFetch

\* The values of options.retries a caller passes; -1 makes the loop body never run.
RetriesInputs == (0 - 1)..MaxRetriesInput

\* No operation of fetchCircleMembers, fetchAllPages or testCircleConnection is under way.
opsIdle ==
  /\ mpc = "idle"
  /\ variant = 0
  /\ membersResult = None
  /\ invitationLinksResult = None
  /\ allMembers = << >>
  /\ allInvitationLinks = << >>
  /\ result = None
  /\ outer = None
  /\ seen = [r \in Resources |-> << >>]
  /\ ppc = "idle"
  /\ page = 0
  /\ consecutiveEmptyPages = 0
  /\ maxPagesToFetch = 0
  /\ allRecords = << >>
  /\ pageLog = << >>
  /\ results = << >>

InitFetch ==
  /\ op = "fetchFromEndpoint"
  /\ creds = [apiKey |-> TRUE, communityId |-> TRUE]
  /\ opsIdle
  /\ cacheEmpty
  /\ noTimer
  /\ nothingApplied
  /\ fpc = "loop"
  /\ attempt = 0
  /\ retries \in RetriesInputs
  /\ endpoint = [resource |-> "members", params |-> 1, page |-> 1]
  /\ fres = None
  /\ aborted = FALSE
  /\ nAttempts = 0
  /\ sleeps = << >>
  /\ log = << >>
  /\ endBody = None
  /\ cancelled = FALSE

NextFetch ==
  \/ FetchSleep
  \/ FetchSend
  \/ FetchLoopExit
  \/ FetchSettle(Responses(FetchTexts))
  \/ FetchAbort
  \/ CallerCancels

SpecFetch == InitFetch /\ [][NextFetch]_vars

\* ------------------------------------------------ SpecCache

InitCache ==
  /\ op = "CacheManager"
  /\ creds = [apiKey |-> TRUE, communityId |-> TRUE]
  /\ retries = maxRetries
  /\ aborted = FALSE
  /\ fpc = "idle"
  /\ attempt = 0
  /\ endpoint = None
  /\ fres = None
  /\ nAttempts = 0
  /\ sleeps = << >>
  /\ log = << >>
  /\ endBody = None
  /\ cancelled = FALSE
  /\ opsIdle
  /\ cacheEmpty
  /\ noTimer
  /\ nothingApplied

NextCache ==
  \/ Set
  \/ Get
  \/ GetStale
  \/ Clear
  \/ ClearAll
  \/ GetMemberData
  \/ StoreMemberData
  \/ Tick

SpecCache == InitCache /\ [][NextCache]_vars

\* ------------------------------------------------ SpecReload

\* The cache of a page that is loaded again from time to time.

NextReload ==
  \/ StoreMemberData
  \/ Get
  \/ Reload
  \/ Tick

SpecReload == InitCache /\ [][NextReload]_vars

\* ------------------------------------------------ SpecTimeout

\* Half a timeout passes while fetch() or response.text() is awaited. A
\* pending timer fires when its time has come: no time passes beyond it.
Wait ==
  /\ fpc \in {"inflight", "body"}
  /\ timeoutId => elapsed < timeout
  /\ elapsed < MaxWaits * (timeout \div 2)
  /\ elapsed' = elapsed + (timeout \div 2)
  /\ UNCHANGED <<timeoutId, requests, apiVars, cacheVars, applyVars>>

\* What the API answers: a page of records, or a server error.
TimedAnswers ==
  {response(200, <<"application/json">>, textOf(JObj([records |-> <<mNested>>]))),
   response(503, <<"text/html">>, [words |-> <<"oops">>, json |-> NoJson])}

InitTimeout ==
  /\ op = "fetchFromEndpoint"
  /\ creds = [apiKey |-> TRUE, communityId |-> TRUE]
  /\ opsIdle
  /\ cacheEmpty
  /\ noTimer
  /\ nothingApplied
  /\ fpc = "loop"
  /\ attempt = 0
  /\ retries \in 0..maxRetries
  /\ endpoint = [resource |-> "members", params |-> 1, page |-> 1]
  /\ fres = None
  /\ aborted = FALSE
  /\ nAttempts = 0
  /\ sleeps = << >>
  /\ log = << >>
  /\ endBody = None
  /\ cancelled = FALSE

NextTimeout ==
  \/ FetchSleep
  \/ FetchSend
  \/ Wait
  \/ FetchTimeout
  \/ FetchRejects
  \/ FetchHeaders
  \/ FetchBody(TimedAnswers)

SpecTimeout == InitTimeout /\ [][NextTimeout]_vars

\* ------------------------------------------------ SpecPages

\* One call of fetchAllPages, made as fetchCircleMembers makes it for the
\* members: op = "fetchAllPages", and membersResult holds the first page.

\* The record the upstream holds on page n.
pageRecord(n) == [id |-> n]

firstPage(hasNext, pageCount) ==
  JObj([records |-> <<pageRecord(1)>>, has_next_page |-> hasNext, page_count |-> pageCount])

\* The first pages fetchAllPages is called with.
PagerDocs ==
  {JNull,
   JObj([count |-> 0]),
   JObj([members |-> <<pageRecord(1)>>, has_next_page |-> FALSE]),
   firstPage(TRUE, 1),
   firstPage(FALSE, MaxPagerPages),
   firstPage(TRUE, MaxPagerPages - 1),
   firstPage(TRUE, MaxPagerPages),
   firstPage(TRUE, BigPageCount)}

jsonAnswer(d) == response(200, <<"application/json">>, textOf(d))

\* What a page request is answered with: up to page MaxPagerPages anything (a
\* page of one record, an empty page, a body without records, null, a server
\* error, a rejection); the pages beyond always hold their record.
PagerAnswers(ep) ==
  IF ep.page <= MaxPagerPages
    THEN {jsonAnswer(JObj([records |-> <<pageRecord(ep.page)>>])),
          jsonAnswer(JObj([records |-> << >>])),
          jsonAnswer(JObj([count |-> 0])),
          jsonAnswer(JNull),
          response(503, <<"text/html">>, [words |-> <<"oops">>, json |-> NoJson])}
         \cup Rejections
    ELSE {jsonAnswer(JObj([records |-> <<pageRecord(ep.page)>>]))}

\* The attempt in flight for a page settles.
PagerSettle ==
  /\ fpc = "inflight"
  /\ ~aborted
  /\ \E o \in PagerAnswers(endpoint) : settle(o)

PagerRetriesInputs == {0, 1}

InitPages ==
  /\ op = "fetchAllPages"
  /\ creds = [apiKey |-> TRUE, communityId |-> TRUE]
  /\ retries \in PagerRetriesInputs
  /\ aborted = FALSE
  /\ fpc = "idle"
  /\ attempt = 0
  /\ endpoint = None
  /\ fres = None
  /\ nAttempts = 0
  /\ sleeps = << >>
  /\ log = << >>
  /\ endBody = None
  /\ cancelled = FALSE
  /\ mpc = "membersData"
  /\ variant = 1
  /\ membersResult \in {[success |-> TRUE, data |-> d] : d \in PagerDocs}
  /\ invitationLinksResult = NotTried
  /\ allMembers = << >>
  /\ allInvitationLinks = << >>
  /\ result = None
  /\ outer = None
  /\ seen = [r \in Resources |-> << >>]
  /\ ppc = "idle"
  /\ page = 0
  /\ consecutiveEmptyPages = 0
  /\ maxPagesToFetch = 0
  /\ allRecords = << >>
  /\ pageLog = << >>
  /\ results = << >>
  /\ cacheEmpty
  /\ noTimer
  /\ nothingApplied

NextPages ==
  \/ ResourceData
  \/ PageLoop
  \/ PageSettled
  \/ PagesReturn
  \/ FetchSleep
  \/ FetchSend
  \/ PagerSettle

SpecPages == InitPages /\ [][NextPages]_vars

\* =========================================================== claims

\* ------------------------------------------------ SpecAggregate

\* processBrokerStats applied, twice over, to member and link arrays.

MemberShapes == {mNested, mFlat, mNone, mIdOnly, mBoth}
MemberLists == UNION {[1..n -> MemberShapes] : n \in 0..MaxMembers}
LinkLists == {<< >>, <<lnk>>}

\* No call of fetchFromEndpoint is under way.
fetchIdle ==
  /\ retries = maxRetries
  /\ aborted = FALSE
  /\ fpc = "idle"
  /\ attempt = 0
  /\ endpoint = None
  /\ fres = None
  /\ nAttempts = 0
  /\ sleeps = << >>
  /\ log = << >>
  /\ endBody = None
  /\ cancelled = FALSE

\* One call processBrokerStats(members, invitationLinks).
ProcessBrokerStats ==
  /\ op = "processBrokerStats"
  /\ Len(output) < 2
  /\ output' = Append(output, processBrokerStats(input.members, input.invitationLinks))
  /\ input' = inputsAfter(input.members, input.invitationLinks)
  /\ UNCHANGED <<upstream, apiVars, cacheVars, attemptVars>>

InitAggregate ==
  /\ op = "processBrokerStats"
  /\ creds = [apiKey |-> TRUE, communityId |-> TRUE]
  /\ fetchIdle
  /\ opsIdle
  /\ cacheEmpty
  /\ noTimer
  /\ input \in [members : MemberLists, invitationLinks : LinkLists]
  /\ output = << >>
  /\ upstream = None

NextAggregate == ProcessBrokerStats

SpecAggregate == InitAggregate /\ [][NextAggregate]_vars

\* ------------------------------------------------ SpecClassify

\* determineErrorType applied to a status, a content type and a response text.

ClassifyStatuses == Statuses \cup {0, 500}
ClassifyTexts == {[words |-> <<w>>, json |-> NoJson] : w \in Words} \cup {textOf(JNull)}

\* One call determineErrorType(status, contentType, responseText).
DetermineErrorType ==
  /\ op = "determineErrorType"
  /\ output = << >>
  /\ output' = <<determineErrorType(input.status, input.contentType, input.text)>>
  /\ UNCHANGED <<input, upstream, apiVars, cacheVars, attemptVars>>

InitClassify ==
  /\ op = "determineErrorType"
  /\ creds = [apiKey |-> TRUE, communityId |-> TRUE]
  /\ fetchIdle
  /\ opsIdle
  /\ cacheEmpty
  /\ noTimer
  /\ input \in [status : ClassifyStatuses, contentType : ContentTypes, text : ClassifyTexts]
  /\ output = << >>
  /\ upstream = None

NextClassify == DetermineErrorType

SpecClassify == InitClassify /\ [][NextClassify]_vars

\* ------------------------------------------------ SpecServed

\* fetchCircleMembers against an API that serves a collection of members and
\* of invitation links in pages, and answers every request.

PageShapes == {<<mNested, mNestedToo>>, <<mNone>>, <<mFlat>>, << >>}
ServedPages == UNION {[1..n -> PageShapes] : n \in 1..MaxServedPages}

\* The page of the collection the endpoint names, as the API documents it.
servedDoc(ep) ==
  LET pages == upstream[ep.resource] IN
  JObj([records |-> IF ep.page <= Len(pages) THEN pages[ep.page] ELSE << >>,
        has_next_page |-> ep.page < Len(pages),
        page_count |-> Len(pages)])

\* The API answers the attempt in flight.
Serve ==
  /\ fpc = "inflight"
  /\ ~aborted
  /\ settle(jsonAnswer(servedDoc(endpoint)))

InitServed ==
  /\ op = "fetchCircleMembers"
  /\ creds = [apiKey |-> TRUE, communityId |-> TRUE]
  /\ fetchIdle
  /\ mpc = "start"
  /\ variant = 0
  /\ membersResult = None
  /\ invitationLinksResult = None
  /\ allMembers = << >>
  /\ allInvitationLinks = << >>
  /\ result = None
  /\ outer = None
  /\ seen = [r \in Resources |-> << >>]
  /\ ppc = "idle"
  /\ page = 0
  /\ consecutiveEmptyPages = 0
  /\ maxPagesToFetch = 0
  /\ allRecords = << >>
  /\ pageLog = << >>
  /\ results = << >>
  /\ cacheEmpty
  /\ noTimer
  /\ input = None
  /\ output = << >>
  /\ upstream \in [members : ServedPages, invitationLinks : {<< << >> >>, <<<<lnk>>>>}]

NextServed ==
  \/ FetchCircleMembers_enter
  \/ MembersVariantSettled
  \/ LinksVariantSettled
  \/ AfterLoop
  \/ ResourceData
  \/ PageLoop
  \/ PageSettled
  \/ PagesReturn
  \/ Finish
  \/ FetchSend
  \/ Serve

SpecServed == InitServed /\ [][NextServed]_vars

\* ------------------------------------------------ SpecBudget

\* How the API fails an attempt: a server error, or a fetch() that rejects on
\* its own or because the attempt's timer aborted it.
FailureModes == {"status", "exception", "timeout"}

failedAttempt(mode) ==
  IF mode = "status"
    THEN response(503, <<"text/html">>, [words |-> <<"oops">>, json |-> NoJson])
    ELSE [kind |-> mode]

\* A collection of n pages of one record each.
pagesOf(record, n) == [p \in 1..n |-> <<record>>]

PageCounts == {1, 2, BigPageCount}

\* The API under which the operation runs: the pages of the two collections,
\* the number of attempts of every request it fails before it answers, the
\* first parameter variant it accepts for each resource (none beyond the
\* last), and how it fails.
Upstreams ==
  {[members |-> pagesOf(mNone, n), invitationLinks |-> pagesOf(lnk, n),
    failing |-> k, variantOk |-> v, mode |-> f] :
     n \in PageCounts, k \in 0..(maxRetries + 1),
     v \in [Resources -> 1..(Len(parameterSets) + 1)], f \in FailureModes}

\* The request in flight responds, fails or times out.
Respond ==
  /\ fpc = "inflight"
  /\ settle(IF \/ attempt < upstream.failing
               \/ endpoint.page = 1 /\ endpoint.params < upstream.variantOk[endpoint.resource]
             THEN failedAttempt(upstream.mode)
             ELSE jsonAnswer(servedDoc(endpoint)))

InitBudget ==
  /\ op = "fetchCircleMembers"
  /\ creds = [apiKey |-> TRUE, communityId |-> TRUE]
  /\ fetchIdle
  /\ mpc = "start"
  /\ variant = 0
  /\ membersResult = None
  /\ invitationLinksResult = None
  /\ allMembers = << >>
  /\ allInvitationLinks = << >>
  /\ result = None
  /\ outer = None
  /\ seen = [r \in Resources |-> << >>]
  /\ ppc = "idle"
  /\ page = 0
  /\ consecutiveEmptyPages = 0
  /\ maxPagesToFetch = 0
  /\ allRecords = << >>
  /\ pageLog = << >>
  /\ results = << >>
  /\ cacheEmpty
  /\ noTimer
  /\ input = None
  /\ output = << >>
  /\ upstream \in Upstreams

NextBudget ==
  \/ FetchCircleMembers_enter
  \/ MembersVariantSettled
  \/ LinksVariantSettled
  \/ AfterLoop
  \/ ResourceData
  \/ PageLoop
  \/ PageSettled
  \/ PagesReturn
  \/ Finish
  \/ FetchSleep
  \/ FetchSend
  \/ Respond

\* Every request in flight is eventually settled, and the event loop runs
\* every continuation that is ready.
SpecBudget == InitBudget /\ [][NextBudget]_vars /\ WF_vars(NextBudget)

\* ----------------------------------------------- fetchFromEndpoint

FetchEnded == fpc \in {"returned", "thrown"}
FetchFailed(type) ==
  fpc = "returned" /\ ~fres.success /\ fres.error.type = type
FetchSucceeded == fpc = "returned" /\ fres.success

\* The classifications the specification calls transient, as the history
\* records them: of a response, and of a fetch() that rejected.
TransientResponses == {"RATE_LIMITED", "NETWORK_ERROR", "TIMEOUT", "INVALID_RESPONSE"}
TransientFailures == TransientResponses \cup {"exception", "timeout"}

AllOf(seq, S) == \A i \in 1..Len(seq) : seq[i] \in S
Front(seq) == SubSeq(seq, 1, Len(seq) - 1)

\* C4: one call of fetchFromEndpoint makes at most retries+1 HTTP attempts,
\* 4 with the default maxRetries = 3, whatever the upstream answers.
C4_AtMostRetriesPlusOne ==
  /\ nAttempts <= retries + 1
  /\ retries = maxRetries => nAttempts <= 4

C4_Witness ==
  FetchEnded /\ retries = maxRetries /\ nAttempts = 4 /\ "timeout" \in {log[i] : i \in 1..Len(log)}

\* C5: for every N < retries, when the first N attempts end in transient
\* failures the call goes on to attempt N+1, and when that attempt is answered
\* with a valid 2xx JSON response the call returns success with that body
\* after exactly N+1 attempts.
C5_FailNThenSucceed ==
  /\ (Len(log) < retries /\ AllOf(log, TransientFailures)) => ~FetchEnded
  /\ (log # << >> /\ log[Len(log)] = "success" /\ AllOf(Front(log), TransientFailures))
       => FetchSucceeded /\ fres.data = endBody /\ nAttempts = Len(log)

\* C6: an attempt classified INVALID_CREDENTIALS or CLOUDFLARE_BLOCKED, the
\* first or a later one, is the call's last attempt, and the call returns a
\* failure of that kind.
C6_FatalEndsTheCall ==
  \A i \in 1..Len(log) :
    log[i] \in Fatal => i = Len(log) /\ nAttempts = i /\ FetchFailed(log[i])

C6_Witness ==
  /\ Len(log) = 3 /\ log[3] = "CLOUDFLARE_BLOCKED" /\ log[1] = "RATE_LIMITED"
  /\ retries = maxRetries /\ FetchEnded

\* C7: a call never ends on a response classified as a transient error while
\* attempts remain, and when attempt retries+1 ends in one the call returns a
\* failure of that kind.
C7_TransientRetriedUntilExhausted ==
  (FetchEnded /\ log # << >> /\ log[Len(log)] \in TransientResponses)
    => Len(log) = retries + 1 /\ FetchFailed(log[Len(log)])

\* C8: once the caller's signal is triggered during an attempt in flight, the
\* call starts no further attempt and no backoff sleep, and it ends in failure.
C8_CancelStopsTheCall ==
  [][cancelled => (nAttempts' = nAttempts /\ sleeps' = sleeps
                    /\ (fpc' = "returned" => ~fres'.success))]_vars

\* C9: when every attempt raises a network-level exception, the call returns
\* {success: false} of kind NETWORK_ERROR after retries+1 attempts.
C9_ExceptionsReturnNetworkError ==
  (FetchEnded /\ log # << >> /\ AllOf(log, {"exception"}))
    => nAttempts = retries + 1 /\ FetchFailed("NETWORK_ERROR")

\* The delay before attempt k (k >= 2), in milliseconds: 1s, 2s, 4s, then 4s.
scheduledDelay(k) == IF k = 2 THEN 1000 ELSE IF k = 3 THEN 2000 ELSE 4000

\* C31: no delay precedes the first attempt; the delay slept before attempt k
\* is 1s, 2s, 4s for k = 2, 3, 4 and 4s for every further attempt; every
\* attempt after the first starts after its sleep.
C31_DelaySchedule ==
  /\ \A i \in 1..Len(sleeps) : sleeps[i] = scheduledDelay(i + 1)
  /\ fpc = "inflight" => Len(sleeps) = nAttempts - 1
  /\ fpc = "send" => Len(sleeps) = nAttempts /\ nAttempts >= 1
  /\ nAttempts <= 1 /\ fpc # "send" => sleeps = << >>

C31_Witness ==
  /\ fpc = "inflight"
  /\ nAttempts = 5
  /\ sleeps = <<1000, 2000, 4000, 4000>>

\* C33: an attempt classified UNKNOWN is the call's last attempt, and the call
\* returns a failure of that kind.
C33_UnknownIsNotRetried ==
  \A i \in 1..Len(log) :
    log[i] = "UNKNOWN_ERROR" => i = Len(log) /\ nAttempts = i /\ FetchFailed("UNKNOWN_ERROR")

\* C34: a response with a 2xx status and a body JSON.parse accepts ends the
\* call in success with the parsed body, whatever its content type: no call
\* returns a failure for such a response.
C34_ParseableBodyIsSuccess ==
  (fpc = "returned" /\ endBody # None /\ endBody # NoJson)
    => IF fres.success
         THEN fres.data = endBody
         ELSE ~ok(num(fres.error, "statusCode"))

\* An attempt is pending from its fetch() until the loop iteration goes on.
attemptPending == fpc \in {"inflight", "body"}

\* C32: an attempt that does not complete within the timeout is cancelled and
\* counts as one failed attempt: no attempt is pending for longer than the
\* timeout, an attempt that timed out is followed by another while attempts
\* remain, and a call whose every attempt timed out ends as failed after
\* retries + 1 attempts.
C32_TimeoutBoundsTheAttempt ==
  /\ attemptPending => elapsed <= timeout
  /\ \A i \in 1..Len(log) :
       (log[i] = "timeout" /\ i < retries + 1 /\ FetchEnded) => Len(log) > i
  /\ (FetchEnded /\ log # << >> /\ AllOf(log, {"timeout"}))
       => (nAttempts = retries + 1 /\ ~FetchSucceeded)

\* ------------------------------------------- fetchCircleMembers: claims

\* fetchCircleMembers has ended (on its own, or inside getInvitationLinkStats).
MembersCallEnded == op \in {"fetchCircleMembers", "getInvitationLinkStats"} /\ mpc = "done"

\* The kinds the variant requests of resource X ended with.
kindsSeen(X) == {seen[X][i] : i \in 1..Len(seen[X])}

OperationFailed(types) ==
  /\ result.ctl = "return"
  /\ ~result.value.success
  /\ result.value.error.type \in types

otherResource(X) == IF X = "members" THEN "invitationLinks" ELSE "members"

\* C1: when a variant request of either resource ended with INVALID_CREDENTIALS
\* or CLOUDFLARE_BLOCKED, fetchCircleMembers returns success:false with an error
\* of such a kind, and never success:true.
C1_FatalKindFailsTheOperation ==
  LET fatalSeen == (kindsSeen("members") \cup kindsSeen("invitationLinks")) \cap Fatal IN
  (MembersCallEnded /\ fatalSeen # {}) => OperationFailed(fatalSeen)

\* C2: when all parameter variants of one resource failed with a non-fatal kind
\* and the other resource succeeded, fetchCircleMembers returns success:true with
\* the statistics of the records fetched, the failed resource's records being empty.
C2_NonFatalResourceIsEmpty ==
  \A X \in Resources :
    (/\ MembersCallEnded
     /\ Len(seen[X]) = Len(parameterSets)
     /\ kindsSeen(X) = {"nonfatal"}
     /\ "success" \in kindsSeen(otherResource(X)))
    => /\ result.ctl = "return"
       /\ result.value.success
       /\ result.value.data = processBrokerStats(allMembers, allInvitationLinks)
       /\ X = "members" => allMembers = << >>
       /\ X = "invitationLinks" => allInvitationLinks = << >>

\* C3: whatever the upstream answers and whatever the credentials,
\* fetchCircleMembers, getInvitationLinkStats and testCircleConnection end by
\* returning a result value with a success flag; none of them throws.
C3_PublicOperationsNeverThrow ==
  /\ result.ctl # "throw"
  /\ outer.ctl # "throw"
  /\ mpc = "done" => result.ctl = "return" /\ Has(result.value, "success")
  /\ outer # None => outer.ctl = "return" /\ Has(outer.value, "success")

\* A null JSON body made fetchAllPages throw; getInvitationLinkStats returned
\* the failure fetchCircleMembers made of it.
C3_Witness ==
  /\ op = "getInvitationLinkStats"
  /\ membersResult # None
  /\ membersResult.success
  /\ membersResult.data = JNull
  /\ outer.ctl = "return"
  /\ ~outer.value.success
  /\ outer.value.error.type = "UNKNOWN_ERROR"


\* The variant request of resource X under way, if any.
awaiting(X) == mpc = (IF X = "members" THEN "awaitMembers" ELSE "awaitLinks")

\* The result fetchCircleMembers holds for resource X.
resultOf(X) == IF X = "members" THEN membersResult ELSE invitationLinksResult

\* fetchAllPages is reading resource X.
paging(X) ==
  /\ mpc = (IF X = "members" THEN "membersPages" ELSE "linksPages")
  /\ ppc \in {"loop", "await", "done"}

\* C20: the variants of a resource are requested in the order of parameterSets;
\* after a variant of the resource succeeded none of its variants is requested,
\* and the first page used for the resource is that of this variant.
C20_VariantsInOrderUntilSuccess ==
  /\ [](\A X \in Resources :
          /\ Len(seen[X]) <= Len(parameterSets)
          /\ \A i \in 1..(Len(seen[X]) - 1) : seen[X][i] # "success"
          /\ awaiting(X)
             => /\ endpoint = [resource |-> X, params |-> Len(seen[X]) + 1, page |-> 1]
                /\ "success" \notin kindsSeen(X)
          /\ paging(X)
             => /\ seen[X] # << >>
                /\ seen[X][Len(seen[X])] = "success"
                /\ LET first == recordsOf(resultOf(X).data.v) IN
                   SubSeq(allRecords, 1, Len(first)) = first)
  /\ [][\A X \in Resources :
          /\ (awaiting(X) /\ ~awaiting(X)' /\ fpc = "returned" /\ fres.success)
             => resultOf(X)' = fres
          /\ (resultOf(X) # None /\ resultOf(X).success)
             => resultOf(X)' = resultOf(X)]_vars

\* The members succeeded on the second variant, the invitation links on the
\* third, and the operation returned statistics.
C20_Witness ==
  /\ MembersCallEnded
  /\ seen["members"] = <<"nonfatal", "success">>
  /\ seen["invitationLinks"] = <<"nonfatal", "nonfatal", "success">>
  /\ result.ctl = "return"
  /\ result.value.success

\* The fatal kinds some variant request of this call ended with.
fatalSeen == (kindsSeen("members") \cup kindsSeen("invitationLinks")) \cap Fatal

\* C21: once a variant request of fetchCircleMembers ended with
\* INVALID_CREDENTIALS or CLOUDFLARE_BLOCKED, the call sends no further HTTP
\* request (no variant, no other resource, no page) before it returns.
C21_NoRequestAfterFatal ==
  [][(op \in {"fetchCircleMembers", "getInvitationLinkStats"} /\ fatalSeen # {})
       => nAttempts' # nAttempts + 1]_vars

\* CIRCLE_API_KEY or CIRCLE_COMMUNITY_ID is not set.
credentialsMissing == ~creds.apiKey \/ ~creds.communityId

\* C22: with the API key or the community id missing, fetchCircleMembers sends
\* no HTTP request at any time and returns success:false with an error of type
\* INVALID_CREDENTIALS.
C22_MissingCredentialsNoRequest ==
  (op = "fetchCircleMembers" /\ credentialsMissing) =>
    /\ nAttempts = 0
    /\ fpc = "idle"
    /\ mpc \in {"start", "done"}
    /\ mpc = "done" => OperationFailed({"INVALID_CREDENTIALS"})

C22_Witness ==
  /\ op = "fetchCircleMembers"
  /\ creds.apiKey
  /\ ~creds.communityId
  /\ mpc = "done"
  /\ nAttempts = 0
  /\ OperationFailed({"INVALID_CREDENTIALS"})

\* The probe of testCircleConnection in flight, if any.
probesInFlight == IF mpc = "probeWait" THEN 1 ELSE 0

C30_OneRequestInFlight ==
  [][(op \in {"fetchCircleMembers", "getInvitationLinkStats"} /\ nAttempts' = nAttempts + 1)
       => (fpc # "inflight" /\ fpc' = "inflight")]_vars

C30_Witness ==
  /\ op = "fetchCircleMembers"
  /\ mpc = "linksPages"
  /\ fpc = "inflight"
  /\ nAttempts = 2
  /\ allMembers # << >>
  /\ Len(seen["members"]) = 2

\* C35: pages 2 and later of a resource are requested with the parameter
\* variant whose request returned the resource's successful first page.
C35_PagesUseSuccessfulVariant ==
  (op \in {"fetchCircleMembers", "getInvitationLinkStats"}
     /\ mpc \in {"membersPages", "linksPages"}
     /\ fpc \in {"loop", "send", "inflight"})
    => /\ endpoint.page >= 2
       /\ seen[endpoint.resource][Len(seen[endpoint.resource])] = "success"
       /\ endpoint.params = Len(seen[endpoint.resource])

\* C36: once the caller's signal has been triggered (while a request is in
\* flight or between two attempts), fetchCircleMembers sends no further HTTP
\* request and returns a failure.
C36_CancelStopsTheOperation ==
  /\ []((op \in {"fetchCircleMembers", "getInvitationLinkStats"} /\ aborted /\ mpc = "done")
          => (result.ctl = "return" /\ ~result.value.success))
  /\ [][(op \in {"fetchCircleMembers", "getInvitationLinkStats"} /\ aborted)
          => nAttempts' # nAttempts + 1]_vars

\* The requests the claim allows one fetchCircleMembers call.
requestBudget == (3 * 2 + 19 * 2) * (maxRetries + 1)

\* C39: when every request eventually responds, fails or times out, every
\* fetchFromEndpoint call reaches a terminal state after which it makes no
\* attempt, and every fetchCircleMembers call eventually returns, having made at
\* most (3 variants x 2 resources + 19 pages x 2 resources) x (maxRetries + 1)
\* requests.
C39_TerminatesWithinBudget ==
  /\ [](requests <= requestBudget)
  /\ <>(mpc = "done" /\ result.ctl = "return")
  /\ [](fpc \in {"loop", "send", "inflight"} => <>FetchEnded)
  /\ [][FetchEnded => nAttempts' # nAttempts + 1]_vars

C39_Witness ==
  /\ mpc = "done"
  /\ result.ctl = "return"
  /\ requests = requestBudget
  /\ upstream.mode = "status"
  /\ Len(allMembers) = maxPagesCap

\* ------------------------------------------------ CacheManager: claims

\* C10: for an entry written by set(key, v, ttl), a getStale(key) made after
\* expiresAt and while the entry's age is within MAX_AGE returns v, whatever
\* get(key) calls were made in between.
C10_StaleReadableWithinMaxAge ==
  (/\ ret.call = "getStale"
   /\ Has(written, ret.key)
   /\ now > written[ret.key].expiresAt
   /\ now - written[ret.key].timestamp <= MAX_AGE)
  => ret.value = some(written[ret.key].data)

\* C11: whatever the key and the ttl given to set, no get or getStale returns
\* data whose age (now minus the entry's timestamp) exceeds MAX_AGE.
C11_NoReadPastMaxAge ==
  (ret.call \in {"get", "getStale"} /\ ~ret.value.isNull)
  => now - cache[ret.key].timestamp <= MAX_AGE

\* The entry of the last set of a key, while it is fresh at the present time.
freshlyWritten(key) == Has(written, key) /\ now <= written[key].expiresAt

\* The entry of the last set of a key, past expiresAt but of an age within MAX_AGE.
staleWritten(key) ==
  /\ Has(written, key)
  /\ now > written[key].expiresAt
  /\ now - written[key].timestamp <= MAX_AGE

\* C12: getMemberData returns the fresh API entry, else the stale API entry
\* (isFresh false, even when a manual entry exists), else the manual entry,
\* else null.
C12_MemberDataPrecedence ==
  ret.call = "getMemberData" =>
    ret.value =
      IF freshlyWritten(CACHE_KEYS.MEMBERS)
        THEN memberData(written[CACHE_KEYS.MEMBERS].data, "api-cache", TRUE)
      ELSE IF staleWritten(CACHE_KEYS.MEMBERS)
        THEN memberData(written[CACHE_KEYS.MEMBERS].data, "api-cache", FALSE)
      ELSE IF freshlyWritten(CACHE_KEYS.MANUAL_DATA)
        THEN memberData(written[CACHE_KEYS.MANUAL_DATA].data, "manual", TRUE)
      ELSE null

\* C13: get(key) returns null when the key is absent or the time is past the
\* entry's expiresAt, and otherwise the data of the most recent set of the key.
C13_GetReturnsLastSet ==
  ret.call = "get" =>
    ret.value = IF freshlyWritten(ret.key) THEN some(written[ret.key].data) ELSE null

\* A get returned the data of a set made at an earlier time.
C13_Witness ==
  /\ ret.call = "get"
  /\ ret.value = some("d2")
  /\ Has(written, ret.key)
  /\ now > written[ret.key].timestamp

\* The entry of the last set of a key, past expiresAt and older than MAX_AGE.
tooOldWritten(key) ==
  /\ Has(written, key)
  /\ now > written[key].expiresAt
  /\ now - written[key].timestamp > MAX_AGE

\* CacheManager.exists
exists(key) == Has(cache, key)

\* C14: getStale(key) on an entry past expiresAt and older than MAX_AGE returns
\* null and removes the entry: exists(key) is false, the reads of the key return
\* null, and only a set of the key brings an entry back.
C14_TooOldIsPurged ==
  /\ [](/\ (ret.call = "getStale" /\ tooOldWritten(ret.key))
             => (ret.value = null /\ ~exists(ret.key))
        /\ (ret.call \in {"get", "getStale"} /\ ~exists(ret.key)) => ret.value = null)
  /\ [][\A key \in Keys :
          (~exists(key) /\ Has(cache', key))
          => (ret'.call \in {"set", "storeMemberData"} /\ ret'.key = key)]_vars

\* A getStale found an entry that was too old, and deleted it.
C14_Witness ==
  /\ ret.call = "getStale"
  /\ ret.removed
  /\ ret.value = null
  /\ tooOldWritten(ret.key)
  /\ ~exists(ret.key)

\* The complete entry of a call set(key, data, options) made at time t.
entryOf(data, options, t) ==
  [data |-> data,
   timestamp |-> t,
   expiresAt |-> t + (IF Has(options, "ttl") THEN options.ttl ELSE DEFAULT_TTL),
   source |-> IF Has(options, "source") THEN options.source ELSE "api",
   version |-> VERSION]

\* C37: however calls of set on a key are interleaved, the entry stored after
\* a set is the complete entry (data, timestamp, expiresAt, source) of that
\* set, the last one executed; a get that follows returns its data; the
\* entries under other keys are unchanged.
C37_LastSetWins ==
  /\ [](ret.call = "set" => /\ Has(cache, ret.key)
                             /\ cache[ret.key] = entryOf(ret.data, ret.options, now))
  /\ [][(ret.call = "set" /\ ret'.call = "get" /\ ret'.key = ret.key)
          => ret'.value = some(ret.data)]_vars
  /\ [][ret'.call = "set"
          => \A k \in Keys \ {ret'.key} :
               /\ Has(cache', k) <=> Has(cache, k)
               /\ Has(cache, k) => cache'[k] = cache[k]]_vars

C37_Witness ==
  /\ ret.call = "set"
  /\ ret.key = CACHE_KEYS.MEMBERS
  /\ ret.data = "d2"
  /\ now = 2
  /\ Has(written, CACHE_KEYS.MEMBERS)
  /\ cache[CACHE_KEYS.MEMBERS] = entryOf("d2", [ttl |-> 2], 2)
  /\ Has(cache, CACHE_KEYS.MANUAL_DATA)
  /\ cache[CACHE_KEYS.MANUAL_DATA].timestamp = 0

\* C40: a reload keeps every entry that is still fresh (now <= expiresAt), also
\* one written with a ttl longer than the max-age: get returns it after the
\* reload as before.
C40_ReloadKeepsFreshEntries ==
  [][ret'.call = "reload"
       => \A k \in DOMAIN storage :
            now <= storage[k].expiresAt
              => /\ Has(cache', k)
                 /\ get(cache', k, now).value = some(storage[k].data)]_vars

\* ---------------------------------------------------- fetchAllPages: claims

\* A fetchAllPages called on its own is under way or over.
PagerCall == op = "fetchAllPages"

\* It returned; allMembers is the list returned.
PagesReturned == PagerCall /\ mpc \in {"linksData", "finish"}

\* It raised.
PagesRaised == PagerCall /\ mpc = "done"

\* The number of empty or failed pages at the end of a log.
RECURSIVE trailingEmpties(_)
trailingEmpties(pages) ==
  IF pages = << >> \/ pages[Len(pages)].records # << >> THEN 0
  ELSE 1 + trailingEmpties(Front(pages))

\* The records of the pages of a log, in its order.
RECURSIVE recordsIn(_)
recordsIn(pages) ==
  IF pages = << >> THEN << >> ELSE pages[1].records \o recordsIn(Tail(pages))

\* The page_count of the first page.
pageCountGiven == num(membersResult.data.v, "page_count")

\* C15: consecutiveEmptyPages is the number of empty or failed pages since the
\* last page with records; no page is requested once it has reached 3, and the
\* records accumulated until then are returned.
C15_StopsAtThreeEmptyPages ==
  PagerCall =>
    /\ ppc \in {"loop", "await", "done"} => consecutiveEmptyPages = trailingEmpties(pageLog)
    /\ ppc \in {"loop", "await"} => trailingEmpties(pageLog) < 3
    /\ \A i \in 1..(Len(pageLog) - 1) : trailingEmpties(SubSeq(pageLog, 1, i)) < 3
    /\ (PagesReturned /\ trailingEmpties(pageLog) >= 3)
       => /\ trailingEmpties(pageLog) = 3
          /\ allMembers = recordsOf(membersResult.data.v) \o recordsIn(pageLog)

\* page_count = MaxPagerPages - 1 and the last three pages are empty: the call
\* returns the records of the pages before them, and the last page requested is
\* the last of the range.
C15_Witness ==
  /\ PagesReturned
  /\ membersResult.data = firstPage(TRUE, MaxPagerPages - 1)
  /\ Len(pageLog) = MaxPagerPages - 2
  /\ \A i \in 1..Len(pageLog) : (pageLog[i].records = << >>) <=> (i > Len(pageLog) - 3)
  /\ \A i \in 1..Len(pageLog) : ~pageLog[i].failed
  /\ pageLog[Len(pageLog)].page = MaxPagerPages - 1
  /\ Len(allMembers) = MaxPagerPages - 4

\* C16: pages are requested only when the first page has has_next_page true
\* and page_count > 1; the pages requested are 2, 3, ... in this order, each
\* once, and none is beyond page_count or beyond 20.
C16_PagesRequestedInRange ==
  PagerCall =>
    LET requested == [i \in 1..Len(pageLog) |-> pageLog[i].page]
                       \o (IF ppc = "await" THEN <<endpoint.page>> ELSE << >>) IN
    /\ \A i \in 1..Len(requested) : requested[i] = i + 1
    /\ requested # << >>
       => /\ membersResult.data # JNull
          /\ Has(membersResult.data.v, "has_next_page")
          /\ membersResult.data.v.has_next_page
          /\ pageCountGiven > 1
          /\ \A i \in 1..Len(requested) :
               requested[i] <= pageCountGiven /\ requested[i] <= 20

\* With page_count above the cap, page 20 was the last page requested.
C16_Witness ==
  /\ PagesReturned
  /\ pageCountGiven = BigPageCount
  /\ Len(pageLog) = 19
  /\ pageLog[Len(pageLog)].page = 20
  /\ pageLog[Len(pageLog)].records # << >>

\* C17: after a failed page k, with fewer than 3 consecutive empty or failed
\* pages so far, page k+1 is requested when it is in the range, and the records
\* of the later pages are in the list returned.
C17_FailedPageDoesNotStopPaging ==
  PagesReturned =>
    \A i \in 1..Len(pageLog) :
      (/\ pageLog[i].failed
       /\ trailingEmpties(SubSeq(pageLog, 1, i)) < 3
       /\ pageLog[i].page < pageCountGiven
       /\ pageLog[i].page < 20)
      => /\ i < Len(pageLog)
         /\ pageLog[i + 1].page = pageLog[i].page + 1
         /\ \A j \in (i + 1)..Len(pageLog) :
              \A r \in 1..Len(pageLog[j].records) :
                \E k \in 1..Len(allMembers) : allMembers[k] = pageLog[j].records[r]

\* Page 2 failed, page 3 had a record, and the record is in the list returned.
C17_Witness ==
  /\ PagesReturned
  /\ Len(pageLog) >= 2
  /\ pageLog[1].failed
  /\ pageLog[2].records = <<pageRecord(3)>>
  /\ \E k \in 1..Len(allMembers) : allMembers[k] = pageRecord(3)

\* C18: fetchAllPages returns a list and never raises, whatever the first page
\* (a body without record fields and a null body included) and whatever the
\* outcomes of the page requests.
C18_FetchAllPagesNeverRaises == ~PagesRaised

\* C19: the list returned is the records of the first page followed by the
\* records of the pages fetched, in the order of the pages.
C19_ReturnsTheConcatenation ==
  PagerCall =>
    /\ ppc \in {"loop", "await", "done"}
       => allRecords = recordsOf(membersResult.data.v) \o recordsIn(pageLog)
    /\ PagesReturned
       => allMembers = recordsOf(membersResult.data.v) \o recordsIn(pageLog)

\* Of pages 2 to 6, pages 3 and 5 had a record, page 2 failed and page 4 was empty.
C19_Witness ==
  /\ PagesReturned
  /\ Len(pageLog) >= 4
  /\ pageLog[1].failed
  /\ pageLog[3].records = << >> /\ ~pageLog[3].failed
  /\ allMembers = <<pageRecord(1), pageRecord(3), pageRecord(5)>>
\* ------------------------------------------------ aggregation: claims

\* The inviter each member record of the model names: "" when it names none
\* (no inviter object with an id, and no inviter id together with a name).
inviterNamed(m) ==
  CASE m \in {mNested, mNestedToo, mBoth} -> "A"
    [] m = mFlat -> "B"
    [] OTHER -> ""

inviters(members) == {inviterNamed(members[i]) : i \in 1..Len(members)} \ {""}
countFor(members, id) == Cardinality({i \in 1..Len(members) : inviterNamed(members[i]) = id})
resolvable(members) == Cardinality({i \in 1..Len(members) : inviterNamed(members[i]) # ""})

RECURSIVE sumOfCounts(_)
sumOfCounts(details) ==
  IF details = << >> THEN 0 ELSE Head(details).referredCount + sumOfCounts(Tail(details))

RECURSIVE concat(_)
concat(pages) == IF pages = << >> THEN << >> ELSE Head(pages) \o concat(Tail(pages))

\* details holds exactly one entry per inviter the members name, with the
\* number of members that name it.
oneEntryPerInviter(details, members) ==
  /\ \A i \in 1..Len(details) : details[i].brokerId \in inviters(members)
  /\ \A i, j \in 1..Len(details) : details[i].brokerId = details[j].brokerId => i = j
  /\ \A id \in inviters(members) :
       \E i \in 1..Len(details) :
         /\ details[i].brokerId = id
         /\ details[i].referredCount = countFor(members, id)

Aggregated == op = "processBrokerStats" /\ output # << >>

\* C23: when the members are served over several pages, the statistics
\* fetchCircleMembers returns count the records of all pages: totalMembers is
\* the number of records over all pages, and the brokers and their counts are
\* those of all the records.
C23_AllPagesAggregated ==
  (op = "fetchCircleMembers" /\ upstream # None /\ mpc = "done") =>
    /\ result.ctl = "return"
    /\ result.value.success
    /\ LET data == result.value.data
           all == concat(upstream.members) IN
       /\ data.totalMembers = Len(all)
       /\ data.totalBrokers = Cardinality(inviters(all))
       /\ oneEntryPerInviter(data.brokerDetails, all)

C23_Witness ==
  /\ op = "fetchCircleMembers"
  /\ upstream # None
  /\ upstream.members = <<<<mNested, mNestedToo>>, <<mNone>>>>
  /\ mpc = "done"
  /\ result.value.success
  /\ result.value.data.totalMembers = 3
  /\ result.value.data.totalBrokers = 1
  /\ result.value.data.brokerDetails =
       <<[brokerId |-> "A", brokerName |-> "Alice", referredCount |-> 2]>>

\* C24: totalMembers of processBrokerStats is the length of the member list it
\* was given, members without a resolvable inviter included, and those members
\* add to no broker's referredCount.
C24_TotalMembersIsLength ==
  Aggregated =>
    \A k \in 1..Len(output) :
      /\ output[k].totalMembers = Len(input.members)
      /\ sumOfCounts(output[k].brokerDetails) = resolvable(input.members)

C24_Witness ==
  /\ Aggregated
  /\ input.members = <<mNested, mNone, mIdOnly>>
  /\ output[1].totalMembers = 3
  /\ output[1].brokerDetails =
       <<[brokerId |-> "A", brokerName |-> "Alice", referredCount |-> 1]>>

\* C25: brokerDetails holds exactly one entry per distinct resolved inviter id,
\* totalBrokers is the number of entries, each referredCount is the number of
\* members resolved to that id, and the counts sum to the number of members
\* with a resolvable inviter.
C25_OneEntryPerInviter ==
  Aggregated =>
    \A k \in 1..Len(output) :
      /\ oneEntryPerInviter(output[k].brokerDetails, input.members)
      /\ output[k].totalBrokers = Len(output[k].brokerDetails)
      /\ Len(output[k].brokerDetails) = Cardinality(inviters(input.members))
      /\ sumOfCounts(output[k].brokerDetails) =
           countFor(input.members, "A") + countFor(input.members, "B")

C25_Witness ==
  /\ Aggregated
  /\ input.members = <<mNested, mNone, mFlat, mNested, mNone, mNested>>
  /\ output[1].totalMembers = 6
  /\ output[1].totalBrokers = 2
  /\ output[1].brokerDetails =
       <<[brokerId |-> "A", brokerName |-> "Alice", referredCount |-> 3],
         [brokerId |-> "B", brokerName |-> "Bob", referredCount |-> 1]>>

\* C26: brokerDetails is ordered by referredCount, non-increasing, for every
\* input.
C26_SortedByReferredCount ==
  Aggregated =>
    \A k \in 1..Len(output) :
      \A i, j \in 1..Len(output[k].brokerDetails) :
        i < j => output[k].brokerDetails[i].referredCount
                   >= output[k].brokerDetails[j].referredCount

C26_Witness ==
  /\ Aggregated
  /\ input.members = <<mFlat, mNested, mNested>>
  /\ output[1].brokerDetails[1].brokerId = "A"
  /\ output[1].brokerDetails[1].referredCount = 2
  /\ output[1].brokerDetails[2].brokerId = "B"
  /\ output[1].brokerDetails[2].referredCount = 1

firstUsableId(m) ==
  LET shapes == <<str(object(m, "invited_by"), "id"), str(object(m, "inviter"), "id"),
                  str(object(m, "referrer"), "id"), str(object(m, "inviter_user"), "id"),
                  str(m, "inviter_id"), str(m, "invited_by_id"), str(m, "referrer_id")>>
      usable == {i \in 1..Len(shapes) : shapes[i] # ""} IN
  IF usable = {} THEN ""
  ELSE shapes[CHOOSE i \in usable : \A j \in usable : i <= j]

\* C38: a member is counted for the first usable id among its inviter shapes:
\* every member that carries one adds to the referredCount of that id's entry.
C38_FirstUsableIdCounts ==
  Aggregated =>
    \A k \in 1..Len(output) :
      \A i \in 1..Len(input.members) :
        firstUsableId(input.members[i]) # "" =>
          \E e \in 1..Len(output[k].brokerDetails) :
            /\ output[k].brokerDetails[e].brokerId = firstUsableId(input.members[i])
            /\ output[k].brokerDetails[e].referredCount =
                 Cardinality({j \in 1..Len(input.members) :
                                firstUsableId(input.members[j])
                                  = firstUsableId(input.members[i])})

\* ------------------------------------------------ determineErrorType: claims

\* The words that hold a challenge marker, in whatever case.
ChallengeWords == {"Checking Your Browser", "Cloudflare", "Ray ID", "Security Check",
                   "please wait while we check"}
hasChallengeMarker(text) == \E k \in 1..Len(text.words) : text.words[k] \in ChallengeWords

\* The rule list: a rule applies when its condition holds.
rules(status, contentType, text) ==
  <<[when |-> status \in {401, 403}, kind |-> "INVALID_CREDENTIALS"],
    [when |-> status = 429, kind |-> "RATE_LIMITED"],
    [when |-> status = 0 \/ status >= 500, kind |-> "NETWORK_ERROR"],
    [when |-> hasChallengeMarker(text), kind |-> "CLOUDFLARE_BLOCKED"],
    [when |-> "application/json" \notin {contentType[k] : k \in 1..Len(contentType)},
     kind |-> "INVALID_RESPONSE"],
    [when |-> TRUE, kind |-> "UNKNOWN_ERROR"]>>

\* The kind of the first rule that applies.
firstMatch(rs) ==
  rs[CHOOSE i \in 1..Len(rs) : rs[i].when /\ \A j \in 1..(i - 1) : ~rs[j].when].kind

Classified == op = "determineErrorType" /\ output # << >>

\* C28: determineErrorType returns, for every status, content type and text,
\* the kind of the first rule that applies in the order 401/403, 429, 0 or
\* >= 500, challenge marker, content type without application/json, otherwise
\* unknown; so a 403 or a 503 with a challenge marker is not CLOUDFLARE_BLOCKED.
C28_FirstMatchingRule ==
  Classified =>
    /\ output[1] = firstMatch(rules(input.status, input.contentType, input.text))
    /\ (input.status \in {403, 503} /\ hasChallengeMarker(input.text))
         => output[1] # "CLOUDFLARE_BLOCKED"

C28_Witness ==
  /\ Classified
  /\ input.status = 403
  /\ input.text.words = <<"Checking Your Browser">>
  /\ output = <<"INVALID_CREDENTIALS">>

====
